---------------------------- MODULE Spec2Model ----------------------------
(***************************************************************************)
(* The hook registry and dispatch engine of EliRefresh: PluginManager of   *)
(* cloudbot/plugin.py and of obrbot/plugin.py (the two registry variants). *)
(*                                                                         *)
(* The event loop of asyncio is modelled by the variable running: the task *)
(* that holds the loop runs alone from one suspension point (a yield from  *)
(* that really waits) to the next; the steps in between are single actions *)
(* that only the running task may take.                                    *)
(***************************************************************************)
EXTENDS Integers, Sequences, FiniteSets, TLC

(***************************************************************************)
(* Bounds of the model.                                                    *)
(***************************************************************************)
\* concurrent callers of launch (dispatches of events to hooks)
NumDispatch == 3
\* concurrent callers of load_plugin
NumLoaders == 2
\* Plugin objects constructed from a module in one behaviour
MaxLoads == 2
\* calls of add_hook in one behaviour
MaxAddHooks == 1
\* josephus: the largest circle, and the largest step between two kills
MaxSize == 4
MaxEvery == 3
\* josephus: till_kill is an unbounded Python int that only goes down once it
\* is below 0; every value below 0 acts alike, so the model stops it this far
\* below 0
MaxBelow == 3

Dispatchers == 1 .. NumDispatch
Loaders == (NumDispatch + 1) .. (NumDispatch + NumLoaders)
Tasks == Dispatchers \cup Loaders

(***************************************************************************)
(* Values.  A Python str is modelled by the sequence of its lines (the     *)
(* pieces between "\n"), so that str.split("\n") and truthiness are what   *)
(* they are in Python: "" is <<"">>, "a\nb" is <<"a", "b">>.               *)
(***************************************************************************)
EmptyStr == << "" >>
Hello == << "hello" >>
TwoLines == << "a", "b" >>
IsFalsyStr(s) == s = EmptyStr
Split(s) == s

None == "None"

(***************************************************************************)
(* Paths, file names and titles: os.path.basename and os.path.splitext.    *)
(***************************************************************************)
Paths == {"plugins/a.py", "plugins/b.py"}
CoreFiles == {"core/main.py"}

Basename(path) ==
    CASE path = "plugins/a.py" -> "a.py"
      [] path = "plugins/b.py" -> "b.py"
      [] path = "core/main.py" -> "main.py"

Splitext0(file_name) ==
    CASE file_name = "a.py" -> "a"
      [] file_name = "b.py" -> "b"
      [] file_name = "internal/main.py" -> "internal/main"

InternalName(file) == IF Basename(file) = "main.py" THEN "internal/main.py" ELSE "internal/?"

Titles == {"a", "b"}

(***************************************************************************)
(* Plugin modules.  A module is what importlib gives load_plugin: the      *)
(* decorated functions of the file in the order of module.__dict__, each   *)
(* with the metadata the hook decorators attached, and the sqlalchemy      *)
(* tables it defines.  A file has more than one source so that a reload    *)
(* can see an edited file.                                                 *)
(***************************************************************************)
Variants == {"cloudbot", "obrbot"}

\* the kind run by load_plugin before indexing: HookType.onload / HookType.on_start
StartType(v) == IF v = "cloudbot" THEN "onload" ELSE "on_start"

\* launch sieves every kind
LifecycleTypesNone(v) == {}

\* the kinds launch does not sieve (cloudbot line 500, obrbot line 429)
LifecycleTypes(v) == IF v = "cloudbot" THEN {"onload"} ELSE {"on_start", "on_stop"}

Func(name, type) ==
    [name |-> name, type |-> type, aliases |-> << >>, doc |-> FALSE,
     auto_help |-> TRUE, triggers |-> {}, types |-> {}, regexes |-> << >>,
     threaded |-> TRUE, single_thread |-> FALSE, required_args |-> << >>]

Sources == {"s1", "s2"}

ModuleFuncs(v, title, src) ==
    CASE title = "a" /\ src = "s1" ->
           (IF v = "obrbot"
            THEN << [Func("stop", "on_stop") EXCEPT !.threaded = FALSE] >> ELSE << >>) \o
           << [Func("setup", StartType(v)) EXCEPT !.single_thread = TRUE,
                                                   !.required_args = << "bot" >>],
              [Func("echo", "command") EXCEPT !.aliases = << "echo", "e" >>,
                                              !.doc = TRUE,
                                              !.single_thread = TRUE,
                                              !.required_args = << "text", "chan" >>],
              [Func("raw", "irc_raw") EXCEPT !.triggers = {"PRIVMSG", "NOTICE"},
                                             !.required_args = << "chan" >>],
              [Func("sv", "sieve") EXCEPT !.required_args = << "bot", "event", "hook" >>] >>
      [] title = "a" /\ src = "s2" ->
           << [Func("echo", "command") EXCEPT !.aliases = << "echo" >>,
                                              !.doc = TRUE,
                                              !.single_thread = TRUE,
                                              !.required_args = << "text" >>],
              [Func("all", "irc_raw") EXCEPT !.triggers = {"*", "PRIVMSG"}],
              [Func("ev", "event") EXCEPT !.types = {"message", "action"},
                                          !.threaded = FALSE],
              [Func("re", "regex") EXCEPT !.regexes = << "r1", "r2" >>,
                                          !.threaded = FALSE] >>
      [] title = "internal/main" ->
           << [Func("core_cmd", "command") EXCEPT !.aliases = << "e", "core" >>],
              [Func("core_raw", "irc_raw") EXCEPT !.triggers = {"PRIVMSG"}],
              [Func("core_all", "irc_raw") EXCEPT !.triggers = {"*"}],
              [Func("core_ev", "event") EXCEPT !.types = {"message"}],
              [Func("core_re", "regex") EXCEPT !.regexes = << "r1" >>],
              [Func("core_sv", "sieve") EXCEPT !.threaded = FALSE],
              Func("core_start", StartType(v)) >>
      [] title = "b" ->
           (IF v = "obrbot" THEN << Func("stop", "on_stop") >> ELSE << >>) \o
           << [Func("setup", StartType(v)) EXCEPT !.threaded = FALSE,
                                                   !.required_args = << "db" >>],
              Func("init", StartType(v)),
              [Func("say", "command") EXCEPT !.aliases = << "say", "e" >>,
                                             !.doc = TRUE,
                                             !.auto_help = FALSE,
                                             !.threaded = FALSE,
                                             !.single_thread = TRUE,
                                             !.required_args = << "text", "chan" >>],
              [Func("quiet", "command") EXCEPT !.aliases = << "q" >>,
                                               !.threaded = FALSE],
              [Func("sv", "sieve") EXCEPT !.threaded = FALSE,
                                          !.required_args = << "bot", "event", "hook" >>] >>

\* sqlalchemy tables of the module that use the bot's metadata (find_tables)
ModuleTables(v, title, src) ==
    IF v = "cloudbot" /\ title = "b" THEN {"prefixes"} ELSE {}

(***************************************************************************)
(* The state.                                                              *)
(***************************************************************************)
VARIABLES
    variant,              \* which registry variant runs: cloudbot or obrbot
    config,               \* bot.config: disabled_plugins and plugin_loading
    plugins,              \* PluginManager.plugins: file name -> Plugin
    commands,             \* PluginManager.commands: alias -> CommandHook
    raw_triggers,         \* PluginManager.raw_triggers: trigger -> list of RawHook
    catch_all_triggers,   \* PluginManager.catch_all_triggers: list of RawHook
    event_type_hooks,     \* PluginManager.event_type_hooks: type -> list of EventHook
    regex_hooks,          \* PluginManager.regex_hooks: list of (regex, RegexHook)
    sieves,               \* PluginManager.sieves: list of SieveHook
    db_metadata,          \* bot.db_metadata: the tables registered (cloudbot)
    hook_waiting_queues,  \* PluginManager._hook_waiting_queues: key -> None or Queue
    future_done,          \* the futures (one per waiting launch) whose result is set
    running,              \* the task that holds the event loop, {} when none does
    objects,              \* number of Plugin objects made so far from each file
    added,                \* number of add_hook calls so far
    pc,                   \* load_plugin: where each loader is
    lplugin,              \* load_plugin: the path and the Plugin object of each loader
    lnext,                \* load_plugin: index of the next on-load hook to run
    lsnap,                \* history: the registry when the loader called load_plugin
    ldirty,               \* history: another call changed the registry since then
    gather,               \* load_all: the gather it waits for and what each of
                          \* its load_plugin calls came to
    last,                 \* history: the call of load_plugin, _unload or add_hook
                          \* that returned in the last step, and what it returned
    lpc,                  \* launch: where each task's launch call is
    lhook,                \* launch: its hook argument
    levent,               \* launch: its event (rebound by the sieve loop)
    lsieve,               \* launch: position of the iterator over sieves
    lresult,              \* launch: what the call returned (or that it raised)
    ltrace,               \* history: what each launch call did, in order
    arrivals,             \* history: the launches of single_thread hooks that reached
                          \* line 510 and have not left line 542, in that order
    jose                  \* josephus: where its call is, and its local variables

regvars == << plugins, commands, raw_triggers, catch_all_triggers, event_type_hooks,
              regex_hooks, sieves, db_metadata >>
loadvars == << objects, added, pc, lplugin, lnext, lsnap, ldirty, gather >>
launchvars == << hook_waiting_queues, future_done, lpc, lhook, levent, lsieve,
                 lresult, ltrace, arrivals >>
vars == << variant, config, regvars, loadvars, launchvars, running, last, jose >>

(***************************************************************************)
(* Plugin and Hook objects.  A Plugin object is named by its file name and *)
(* a serial number (its identity); a Hook object by its plugin, its        *)
(* function and, for add_hook, the number of the call that made it.        *)
(***************************************************************************)
Plugin(file_name, title, id, src) ==
    [file_name |-> file_name, title |-> title, id |-> id, src |-> src]

Hook(plugin, name, n) == [plugin |-> plugin, name |-> name, n |-> n]

SeqToSet(s) == {s[i] : i \in 1 .. Len(s)}

\* the decorated function a Hook object wraps, with its metadata
HookFunc(h) ==
    LET fs == ModuleFuncs(variant, h.plugin.title, h.plugin.src)
    IN  CHOOSE f \in SeqToSet(fs) : f.name = h.name

\* the hooks of one kind, last declared first
HooksOfTypeReversed(plugin, type) ==
    LET fs == ModuleFuncs(variant, plugin.title, plugin.src)
        IsT(f) == f.type = type
        sel == SelectSeq(fs, IsT)
    IN  [i \in 1 .. Len(sel) |-> Hook(plugin, sel[Len(sel) + 1 - i].name, 0)]

\* find_hooks: the hooks of one kind, in module order
HooksOfType(plugin, type) ==
    LET fs == ModuleFuncs(variant, plugin.title, plugin.src)
        IsT(f) == f.type = type
        sel == SelectSeq(fs, IsT)
    IN  [i \in 1 .. Len(sel) |-> Hook(plugin, sel[i].name, 0)]

\* the Hook object itself as the key of the wait queues
HookKeyIsHook(h) == h

\* the key of the wait queues: (hook.plugin.title, hook.function_name)
HookKey(h) == << h.plugin.title, h.name >>

\* a catch-all only when "*" is the one trigger
is_catch_all_alone(h) == HookFunc(h).triggers = {"*"}

\* RawHook.is_catch_all
is_catch_all(h) == "*" \in HookFunc(h).triggers

(***************************************************************************)
(* Python containers.                                                      *)
(***************************************************************************)
\* d[k] = v
DictSet(d, k, v) == [x \in DOMAIN d \cup {k} |-> IF x = k THEN v ELSE d[x]]

\* del d[k]
DictDel(d, k) == [x \in DOMAIN d \ {k} |-> d[x]]

EmptyDict == [x \in {} |-> x]

Contains(s, x) == \E i \in 1 .. Len(s) : s[i] = x

\* list.remove(x): drops the first occurrence (the caller checks Contains first,
\* Python raises ValueError when there is none)
ListRemove(s, x) ==
    LET i == CHOOSE j \in 1 .. Len(s) : s[j] = x /\ \A k \in 1 .. j - 1 : s[k] # x
    IN  [k \in 1 .. Len(s) - 1 |-> IF k < i THEN s[k] ELSE s[k + 1]]

(***************************************************************************)
(* The registry as one value, for the operators below.  err is the         *)
(* exception that stopped an operation part way, None when none did.       *)
(***************************************************************************)
Registry ==
    [plugins |-> plugins, commands |-> commands, raw_triggers |-> raw_triggers,
     catch_all_triggers |-> catch_all_triggers,
     event_type_hooks |-> event_type_hooks, regex_hooks |-> regex_hooks,
     sieves |-> sieves, db_metadata |-> db_metadata, err |-> None]

EmptyRegistry ==
    [plugins |-> EmptyDict, commands |-> EmptyDict, raw_triggers |-> EmptyDict,
     catch_all_triggers |-> << >>, event_type_hooks |-> EmptyDict,
     regex_hooks |-> << >>, sieves |-> << >>, db_metadata |-> {}, err |-> None]

\* the six hook indices and plugins, without the history field
Indices(r) ==
    << r.plugins, r.commands, r.raw_triggers, r.catch_all_triggers,
       r.event_type_hooks, r.regex_hooks, r.sieves >>

(***************************************************************************)
(* Indexing: the kind-specific registration of load_plugin and add_hook.   *)
(***************************************************************************)
RECURSIVE RegisterAliasesOverwrite(_, _, _)
\* the loop without the check "alias in self.commands": the last registrant wins
RegisterAliasesOverwrite(cmds, hook, aliases) ==
    IF aliases = << >> THEN cmds
    ELSE RegisterAliasesOverwrite(DictSet(cmds, Head(aliases), hook), hook, Tail(aliases))

RECURSIVE RegisterAliases(_, _, _)
\* for alias in hook.aliases: keep the first registrant, else map the alias
RegisterAliases(cmds, hook, aliases) ==
    IF aliases = << >> THEN cmds
    ELSE LET alias == Head(aliases)
         IN  IF alias \in DOMAIN cmds
             THEN RegisterAliases(cmds, hook, Tail(aliases))
             ELSE RegisterAliases(DictSet(cmds, alias, hook), hook, Tail(aliases))

RECURSIVE AppendUnder(_, _, _)
\* for key in keys: d[key].append(hook) if key in d else d[key] = [hook]
AppendUnder(d, hook, keys) ==
    IF keys = {} THEN d
    ELSE LET key == CHOOSE k \in keys : TRUE
             d2 == IF key \in DOMAIN d
                   THEN DictSet(d, key, Append(d[key], hook))
                   ELSE DictSet(d, key, << hook >>)
         IN  AppendUnder(d2, hook, keys \ {key})

\* the registration of one command hook
RegisterCommand(r, hook) ==
    [r EXCEPT !.commands = RegisterAliases(r.commands, hook, HookFunc(hook).aliases)]

\* the registration of one raw hook
RegisterRaw(r, hook) ==
    IF is_catch_all(hook)
    THEN [r EXCEPT !.catch_all_triggers = Append(r.catch_all_triggers, hook)]
    ELSE [r EXCEPT !.raw_triggers = AppendUnder(r.raw_triggers, hook, HookFunc(hook).triggers)]

\* the loop over plugin.events left out: the event hook is in no list
RegisterEventSkipped(r, hook) == r

\* the registration of one event hook
RegisterEvent(r, hook) ==
    [r EXCEPT !.event_type_hooks = AppendUnder(r.event_type_hooks, hook, HookFunc(hook).types)]

\* the registration of one regex hook: one (regex, hook) pair per pattern
RegisterRegex(r, hook) ==
    LET res == HookFunc(hook).regexes
    IN  [r EXCEPT !.regex_hooks = r.regex_hooks \o [i \in 1 .. Len(res) |-> << res[i], hook >>]]

\* the registration of one sieve at the head of the list
RegisterSievePrepend(r, hook) ==
    [r EXCEPT !.sieves = << hook >> \o r.sieves]

\* the registration of one sieve
RegisterSieve(r, hook) ==
    [r EXCEPT !.sieves = Append(r.sieves, hook)]

\* the kind-specific registration of one hook (the if/elif chain of add_hook,
\* the bodies of the five loops of load_plugin)
RegisterHook(r, hook) ==
    LET type == HookFunc(hook).type
    IN  CASE type = "command" -> RegisterCommand(r, hook)
          [] type = "irc_raw" -> RegisterRaw(r, hook)
          [] type = "event" -> RegisterEvent(r, hook)
          [] type = "regex" -> RegisterRegex(r, hook)
          [] type = "sieve" -> RegisterSieve(r, hook)
          [] OTHER -> r

RECURSIVE RegisterAll(_, _)
\* one loop of load_plugin over plugin.<kind>
RegisterAll(r, hooks) ==
    IF hooks = << >> THEN r
    ELSE RegisterAll(RegisterHook(r, Head(hooks)), Tail(hooks))

\* load_plugin from "self.plugins[plugin.file_name] = plugin" to its end
IndexPlugin(r, plugin) ==
    RegisterAll(
      RegisterAll(
        RegisterAll(
          RegisterAll(
            RegisterAll([r EXCEPT !.plugins = DictSet(r.plugins, plugin.file_name, plugin)],
                        HooksOfType(plugin, "command")),
            HooksOfType(plugin, "irc_raw")),
          HooksOfType(plugin, "event")),
        HooksOfType(plugin, "regex")),
      HooksOfType(plugin, "sieve"))

(***************************************************************************)
(* _unload, from "plugin = self.plugins[file_name]" on.  An assert that    *)
(* fails or a list.remove of an absent item raises and leaves the registry *)
(* as it is at that line.                                                  *)
(***************************************************************************)
\* the loop without the check "self.commands[alias] == command_hook"
UnregisterAliasesAny(cmds, hook, aliases) ==
    [a \in DOMAIN cmds \ SeqToSet(aliases) |-> cmds[a]]

RECURSIVE UnregisterAliases(_, _, _)
\* for alias in hook.aliases: delete the alias when it maps to this hook
UnregisterAliases(cmds, hook, aliases) ==
    IF aliases = << >> THEN cmds
    ELSE LET alias == Head(aliases)
         IN  IF alias \in DOMAIN cmds /\ cmds[alias] = hook
             THEN UnregisterAliases(DictDel(cmds, alias), hook, Tail(aliases))
             ELSE UnregisterAliases(cmds, hook, Tail(aliases))

\* the removal without "del" of the key whose list it emptied
RemoveUnderKeepsKey(d, hook, keys) ==
    << [k \in DOMAIN d |-> IF k \in keys /\ Contains(d[k], hook)
                           THEN ListRemove(d[k], hook) ELSE d[k]], None >>

RECURSIVE RemoveUnder(_, _, _)
\* for key in keys: assert key in d; d[key].remove(hook); drop an emptied key.
\* The result is << d, err >>.
RemoveUnder(d, hook, keys) ==
    IF keys = {} THEN << d, None >>
    ELSE LET key == CHOOSE k \in keys : TRUE
         IN  IF key \notin DOMAIN d THEN << d, "AssertionError" >>
             ELSE IF ~Contains(d[key], hook) THEN << d, "ValueError" >>
             ELSE LET rest == ListRemove(d[key], hook)
                      d2 == IF rest = << >> THEN DictDel(d, key)
                            ELSE DictSet(d, key, rest)
                  IN  RemoveUnder(d2, hook, keys \ {key})

\* the loop over plugin.commands left out: the aliases stay mapped
UnregisterCommandSkipped(r, hook) == r

\* the aliases of one command hook are unregistered
UnregisterCommand(r, hook) ==
    [r EXCEPT !.commands = UnregisterAliases(r.commands, hook, HookFunc(hook).aliases)]

UnregisterRaw(r, hook) ==
    IF is_catch_all(hook)
    THEN IF Contains(r.catch_all_triggers, hook)
         THEN [r EXCEPT !.catch_all_triggers = ListRemove(r.catch_all_triggers, hook)]
         ELSE [r EXCEPT !.err = "ValueError"]
    ELSE LET res == RemoveUnder(r.raw_triggers, hook, HookFunc(hook).triggers)
         IN  [r EXCEPT !.raw_triggers = res[1], !.err = res[2]]

UnregisterEvent(r, hook) ==
    LET res == RemoveUnder(r.event_type_hooks, hook, HookFunc(hook).types)
    IN  [r EXCEPT !.event_type_hooks = res[1], !.err = res[2]]

RECURSIVE RemovePairs(_, _, _)
\* for regex_match in hook.regexes: self.regex_hooks.remove((regex_match, hook))
RemovePairs(r, hook, res) ==
    IF res = << >> THEN r
    ELSE IF ~Contains(r.regex_hooks, << Head(res), hook >>)
         THEN [r EXCEPT !.err = "ValueError"]
         ELSE RemovePairs([r EXCEPT !.regex_hooks = ListRemove(r.regex_hooks, << Head(res), hook >>)],
                          hook, Tail(res))

UnregisterRegex(r, hook) == RemovePairs(r, hook, HookFunc(hook).regexes)

\* the loop over plugin.sieves left out: the sieve stays in the list
UnregisterSieveSkipped(r, hook) == r

\* self.sieves.remove(sieve_hook)
UnregisterSieve(r, hook) ==
    IF Contains(r.sieves, hook)
    THEN [r EXCEPT !.sieves = ListRemove(r.sieves, hook)]
    ELSE [r EXCEPT !.err = "ValueError"]

\* the body of one of the five loops of _unload
UnregisterHook(r, hook) ==
    LET type == HookFunc(hook).type
    IN  CASE type = "command" -> UnregisterCommand(r, hook)
          [] type = "irc_raw" -> UnregisterRaw(r, hook)
          [] type = "event" -> UnregisterEvent(r, hook)
          [] type = "regex" -> UnregisterRegex(r, hook)
          [] type = "sieve" -> UnregisterSieve(r, hook)
          [] OTHER -> r

RECURSIVE UnregisterAll(_, _)
\* one loop of _unload over plugin.<kind>; an exception ends it
UnregisterAll(r, hooks) ==
    IF hooks = << >> \/ r.err # None THEN r
    ELSE UnregisterAll(UnregisterHook(r, Head(hooks)), Tail(hooks))

\* Plugin.unregister_tables (cloudbot only: obrbot plugins have no tables)
unregister_tables(r, plugin) ==
    [r EXCEPT !.db_metadata = @ \ ModuleTables(variant, plugin.title, plugin.src)]

\* the administrative check at the head of _unload
IsDisabled(title) == title \in config.disabled_plugins

\* the five loops of _unload over the hooks of the plugin, in the code's order
UnregisterPlugin(r, plugin) ==
    UnregisterAll(
      UnregisterAll(
        UnregisterAll(
          UnregisterAll(
            UnregisterAll(r, HooksOfType(plugin, "command")),
            HooksOfType(plugin, "irc_raw")),
          HooksOfType(plugin, "event")),
        HooksOfType(plugin, "regex")),
      HooksOfType(plugin, "sieve"))

\* the end of _unload: an exception of the loops escapes; otherwise the tables
\* are unregistered and the plugin is deleted from plugins
UnloadEnd(r, plugin) ==
    IF r.err # None THEN << [r EXCEPT !.err = None], r.err >>
    ELSE << [r EXCEPT !.db_metadata = unregister_tables(r, plugin).db_metadata,
                      !.plugins = DictDel(r.plugins, plugin.file_name)], TRUE >>

\* _unload(path): << registry after the call, returned value >>; the returned
\* value is TRUE, FALSE, or the name of the exception raised
Unload(r, path) ==
    IF IsDisabled(Splitext0(Basename(path))) THEN << r, FALSE >>
    ELSE IF Basename(path) \notin DOMAIN r.plugins THEN << r, FALSE >>
    ELSE UnloadEnd(UnregisterPlugin(r, r.plugins[Basename(path)]),
                   r.plugins[Basename(path)])

(***************************************************************************)
(* Initial states.                                                         *)
(***************************************************************************)
NoPlugin == Plugin("", "", 0, "")
NoHook == Hook(NoPlugin, "", 0)
NoEvent == [text |-> EmptyStr, attrs |-> {}]
NoLoad == [path |-> "", plugin |-> NoPlugin]
Child(path, ret, plugin) == [path |-> path, ret |-> ret, plugin |-> plugin]
NoGather == [state |-> "none", done |-> [t \in Tasks |-> Child("", "", NoPlugin)]]
NoCall ==
    [op |-> "", file_name |-> "", ret |-> "", plugin |-> NoPlugin,
     snap |-> EmptyRegistry, dirty |-> FALSE]
Call(op, file_name, ret, plugin, snap, dirty) ==
    [op |-> op, file_name |-> file_name, ret |-> ret, plugin |-> plugin,
     snap |-> snap, dirty |-> dirty]

\* bot.config, as far as load_plugin and _unload read it
Config(disabled, has_pl, use_wl, wl, bl) ==
    [disabled_plugins |-> disabled, plugin_loading |-> has_pl,
     use_whitelist |-> use_wl, whitelist |-> wl, blacklist |-> bl]

Configs ==
    { Config({}, FALSE, FALSE, {}, {}),
      Config({"a"}, FALSE, FALSE, {}, {}),
      Config({}, TRUE, FALSE, {}, {"b"}),
      Config({}, TRUE, TRUE, {"a"}, {}) }

SetRegistry(r) ==
    /\ plugins' = r.plugins
    /\ commands' = r.commands
    /\ raw_triggers' = r.raw_triggers
    /\ catch_all_triggers' = r.catch_all_triggers
    /\ event_type_hooks' = r.event_type_hooks
    /\ regex_hooks' = r.regex_hooks
    /\ sieves' = r.sieves
    /\ db_metadata' = r.db_metadata

\* josephus has not been called
NoJosephus ==
    [pc |-> "none", split |-> << >>, size |-> 0, every_x |-> 0, current |-> 0,
     alive |-> << >>, till_kill |-> 0, ret |-> ""]

InitRest ==
    /\ variant \in Variants
    /\ hook_waiting_queues = EmptyDict
    /\ future_done = {}
    /\ running = {}
    /\ added = 0
    /\ pc = [t \in Loaders |-> "idle"]
    /\ lplugin = [t \in Loaders |-> NoLoad]
    /\ lnext = [t \in Loaders |-> 1]
    /\ lsnap = [t \in Loaders |-> EmptyRegistry]
    /\ ldirty = [t \in Loaders |-> FALSE]
    /\ gather = NoGather
    /\ last = NoCall
    /\ lpc = [t \in Tasks |-> "idle"]
    /\ lhook = [t \in Tasks |-> NoHook]
    /\ levent = [t \in Tasks |-> NoEvent]
    /\ lsieve = [t \in Tasks |-> 1]
    /\ lresult = [t \in Tasks |-> ""]
    /\ ltrace = [t \in Tasks |-> << >>]
    /\ arrivals = << >>

\* PluginManager.__init__
Init ==
    /\ InitRest
    /\ jose = NoJosephus
    /\ config \in Configs
    /\ objects = [f \in {Basename(p) : p \in Paths} |-> 0]
    /\ plugins = EmptyDict
    /\ commands = EmptyDict
    /\ raw_triggers = EmptyDict
    /\ catch_all_triggers = << >>
    /\ event_type_hooks = EmptyDict
    /\ regex_hooks = << >>
    /\ sieves = << >>
    /\ db_metadata = {}

(***************************************************************************)
(* Events and what hook functions and sieves give back.                    *)
(***************************************************************************)
Event(text, attrs) == [text |-> text, attrs |-> attrs]

\* the events a caller of launch passes for a hook of the indices
Events ==
    { Event(Hello, {"bot", "text", "chan"}), Event(EmptyStr, {"bot", "text", "chan"}),
      Event(Hello, {"bot", "text"}) }

\* Event(bot=self.bot, hook=hook) of load_plugin; the attributes the Event class
\* gives it are not part of this repository
StartEvents == { Event(EmptyStr, at) : at \in {{"bot", "hook"}, {"bot", "hook", "db"}} }

Result(kind, val) == [kind |-> kind, val |-> val]

\* what the callable of a hook may do: return None, a str, a list or tuple of
\* str, or raise an Exception
Outcomes(event) ==
    { Result("none", << >>), Result("raise", << >>), Result("str", event.text),
      Result("list", << >>), Result("list", << Hello >>),
      Result("list", << Hello, EmptyStr >>) }

SieveResult(kind, event) == [kind |-> kind, event |-> event]

\* what the function of a sieve may do: return an event, return None, or raise
SieveOutcomes ==
    { SieveResult("event", e) : e \in Events }
        \cup { SieveResult("none", NoEvent), SieveResult("raise", NoEvent) }

\* hasattr(event, required_arg) for every required_arg in order: the first
\* argument the event lacks, None when it has them all (_prepare_parameters)
MissingArg(hook, event) ==
    LET args == HookFunc(hook).required_args
        bad == {i \in 1 .. Len(args) : args[i] \notin event.attrs}
    IN  IF bad = {} THEN None
        ELSE args[CHOOSE i \in bad : \A j \in bad : i <= j]

\* the condition without "hook.auto_help"
HelpConditionNoAutoHelp(hook, event) ==
    /\ HookFunc(hook).type = "command"
    /\ IsFalsyStr(event.text)
    /\ HookFunc(hook).doc

\* the condition of the help short-circuit of launch
HelpCondition(hook, event) ==
    /\ HookFunc(hook).type = "command"
    /\ HookFunc(hook).auto_help
    /\ IsFalsyStr(event.text)
    /\ HookFunc(hook).doc

\* _execute_hook that drops what the callable returned
SendsNothing(out) == { [err |-> None, sent |-> << >>] }

\* _execute_hook after the callable returned out: the sends it makes, or the
\* exception it raises.  Each send is << method, arguments >>.  obrbot's
\* event.reply() with no argument is not code of this repository: it may do
\* nothing or raise.
Sends(out) ==
    CASE out.kind = "none" -> { [err |-> None, sent |-> << >>] }
      [] out.kind = "list" /\ variant = "cloudbot" ->
           IF out.val = << >> THEN { [err |-> "IndexError", sent |-> << >>] }
           ELSE { [err |-> None,
                   sent |-> << << "reply", << Head(out.val) >> >> >> \o
                            [i \in 1 .. Len(out.val) - 1 |->
                                << "message", << out.val[i + 1] >> >>]] }
      [] out.kind = "list" /\ variant = "obrbot" ->
           IF out.val = << >>
           THEN { [err |-> None, sent |-> << << "reply", << >> >> >>],
                  [err |-> "TypeError", sent |-> << >>] }
           ELSE { [err |-> None, sent |-> << << "reply", out.val >> >>] }
      [] out.kind = "str" /\ variant = "cloudbot" ->
           { [err |-> None, sent |-> << << "reply", << out.val >> >> >>] }
      [] out.kind = "str" /\ variant = "obrbot" ->
           { [err |-> None,
              sent |-> << << "reply", [i \in 1 .. Len(Split(out.val)) |->
                                          << Split(out.val)[i] >>] >> >>] }

(***************************************************************************)
(* launch(hook, event), one action per stretch between suspension points.  *)
(***************************************************************************)
Log(t, entries) == ltrace' = [ltrace EXCEPT ![t] = @ \o entries]

\* the return of launch: the caller goes on in the same task
Return(t, res) ==
    /\ lresult' = [lresult EXCEPT ![t] = res]
    /\ lpc' = [lpc EXCEPT ![t] = "ret"]
    /\ running' = {t}

Goto(t, label) == lpc' = [lpc EXCEPT ![t] = label]

\* a caller of launch outside the registry (the bot's event handlers, the
\* prefixes plugin) dispatches an event to a hook it found in the indices;
\* the dispatches are numbered in the order of their calls
DispatchHooks ==
    {commands[a] : a \in DOMAIN commands}
        \cup UNION {SeqToSet(raw_triggers[k]) : k \in DOMAIN raw_triggers}
        \cup SeqToSet(catch_all_triggers)
        \cup UNION {SeqToSet(event_type_hooks[k]) : k \in DOMAIN event_type_hooks}
        \cup {regex_hooks[i][2] : i \in 1 .. Len(regex_hooks)}

LaunchCall(t) ==
    /\ t \in Dispatchers
    /\ lpc[t] = "idle"
    /\ \A u \in Dispatchers : u < t => lpc[u] # "idle"
    /\ running = {}
    /\ \E hook \in DispatchHooks, event \in Events :
         /\ lhook' = [lhook EXCEPT ![t] = hook]
         /\ levent' = [levent EXCEPT ![t] = event]
    /\ lsieve' = [lsieve EXCEPT ![t] = 1]
    /\ Goto(t, "sieve")
    /\ running' = {t}
    /\ last' = NoCall
    /\ UNCHANGED << jose, variant, config, regvars, loadvars, hook_waiting_queues,
                    future_done, lresult, ltrace, arrivals >>

\* lines 500-502: the loop over self.sieves; the iterator reads the list as
\* it is now
LaunchSieve(t) ==
    /\ lpc[t] = "sieve"
    /\ running = {t}
    /\ IF /\ HookFunc(lhook[t]).type \notin LifecycleTypes(variant)
          /\ lsieve[t] <= Len(sieves)
       THEN /\ Goto(t, "in_sieve")
            /\ lsieve' = [lsieve EXCEPT ![t] = @ + 1]
            /\ Log(t, << << "sieve", sieves[lsieve[t]] >> >>)
            /\ running' = {}
       ELSE /\ Goto(t, "help")
            /\ UNCHANGED << lsieve, ltrace, running >>
    /\ last' = NoCall
    /\ UNCHANGED << jose, variant, config, regvars, loadvars, hook_waiting_queues,
                    future_done, lhook, levent, lresult, arrivals >>

\* the sieve loop without the check of the sieve's result: it goes on
RejectedIgnored(t, kind) ==
    /\ Log(t, << << "rejected", kind >> >>)
    /\ Goto(t, "sieve")
    /\ running' = {t}
    /\ UNCHANGED << levent, lresult >>

\* _sieve without its except clause: the exception of a sieve leaves launch
SieveExitUncaught(kind) == IF kind = "raise" THEN "raised" ELSE "False"

\* how launch ends after a sieve that gave no event: _sieve catches the
\* exception of a sieve, logs it and returns None (lines 478-485), and launch
\* returns False for None (lines 503-504)
SieveExit(kind) == "False"

\* lines 503-504: "if event is None: return False" (_sieve gives None for a
\* sieve that raised)
Rejected(t, kind) ==
    /\ Log(t, << << "rejected", kind >> >>)
    /\ Return(t, SieveExit(kind))
    /\ UNCHANGED levent

\* _sieve: the sieve function returned or raised
SieveReturn(t) ==
    /\ lpc[t] = "in_sieve"
    /\ running = {}
    /\ \E res \in SieveOutcomes :
         IF res.kind = "event"
         THEN /\ levent' = [levent EXCEPT ![t] = res.event]
              /\ Goto(t, "sieve")
              /\ running' = {t}
              /\ UNCHANGED << lresult, ltrace >>
         ELSE Rejected(t, res.kind)
    /\ last' = NoCall
    /\ UNCHANGED << jose, variant, config, regvars, loadvars, hook_waiting_queues,
                    future_done, lhook, lsieve, arrivals >>

\* lines 506-508: the help short-circuit
LaunchHelp(t) ==
    /\ lpc[t] = "help"
    /\ running = {t}
    /\ IF HelpCondition(lhook[t], levent[t])
       THEN /\ Log(t, << << "help", "" >>, << "notice_doc", "" >> >>)
            /\ Return(t, "False")
       ELSE /\ Log(t, << << "help", "" >> >>)
            /\ Goto(t, "gate")
            /\ UNCHANGED << lresult, running >>
    /\ last' = NoCall
    /\ UNCHANGED << jose, variant, config, regvars, loadvars, hook_waiting_queues,
                    future_done, lhook, levent, lsieve, arrivals >>

Queue(created, items) == [created |-> created, items |-> items]

\* the check of line 514 left out: every launch takes the key as free
BusyNever(key) == FALSE

\* line 514: "if key in self._hook_waiting_queues"
Busy(key) == key \in DOMAIN hook_waiting_queues

\* the future of the launch is put on the queue of every key
EnqueueEverywhere(queues, key, t) ==
    [k \in DOMAIN queues |-> Queue(TRUE, Append(queues[k].items, t))]

\* lines 516-524: the future of the launch is put on the queue of its key,
\* which is created when the mapping holds None for the key
Enqueue(queues, key, t) ==
    DictSet(queues, key, Queue(TRUE, Append(queues[key].items, t)))

\* lines 510-530: a single_thread hook runs at once when its key is free and
\* waits on a future in the key's queue when it is not
LaunchGate(t) ==
    /\ lpc[t] = "gate"
    /\ running = {t}
    /\ LET key == HookKey(lhook[t])
       IN  IF HookFunc(lhook[t]).single_thread
           THEN /\ arrivals' = Append(arrivals, << key, t >>)
                /\ IF Busy(key)
                   THEN /\ hook_waiting_queues' = Enqueue(hook_waiting_queues, key, t)
                        /\ Log(t, << << "enqueue", "" >> >>)
                        /\ Goto(t, "wait")
                        /\ running' = {}
                   ELSE /\ hook_waiting_queues' =
                              DictSet(hook_waiting_queues, key, Queue(FALSE, << >>))
                        /\ Log(t, << << "acquire", "" >> >>)
                        /\ Goto(t, "exec")
                        /\ UNCHANGED running
           ELSE /\ Goto(t, "exec")
                /\ UNCHANGED << hook_waiting_queues, ltrace, running, arrivals >>
    /\ last' = NoCall
    /\ UNCHANGED << jose, variant, config, regvars, loadvars, future_done, lhook, levent,
                    lsieve, lresult >>

\* line 526: the future of a waiting launch has its result
LaunchWake(t) ==
    /\ lpc[t] = "wait"
    /\ running = {}
    /\ t \in future_done
    /\ Goto(t, "exec")
    /\ running' = {t}
    /\ last' = NoCall
    /\ UNCHANGED << jose, variant, config, regvars, loadvars, hook_waiting_queues,
                    future_done, lhook, levent, lsieve, lresult, ltrace, arrivals >>

Last(s) == s[Len(s)]

\* the launch is inside the callable of its hook
InCallable(t) ==
    /\ lpc[t] = "in_exec"
    /\ Last(ltrace[t])[1] = "invoke"

\* _execute_hook up to the call of the hook's function.  obrbot binds the
\* parameters first and returns False when one is missing; cloudbot binds them
\* inside _execute_hook_threaded / _execute_hook_sync, after the event was
\* prepared, and these return None when one is missing.
LaunchExec(t) ==
    /\ lpc[t] = "exec"
    /\ running = {t}
    /\ LET missing == MissingArg(lhook[t], levent[t])
       IN  IF variant = "obrbot"
           THEN IF missing # None
                THEN /\ Log(t, << << "bind_failed", missing >> >>)
                     /\ lresult' = [lresult EXCEPT ![t] = "False"]
                     /\ Goto(t, "release")
                     /\ UNCHANGED running
                ELSE /\ Log(t, << << "invoke", "" >> >>)
                     /\ Goto(t, "in_exec")
                     /\ running' = {}
                     /\ UNCHANGED lresult
           ELSE /\ IF missing # None
                   THEN Log(t, << << "prepare", "" >>, << "bind_failed", missing >> >>)
                   ELSE Log(t, << << "prepare", "" >>, << "invoke", "" >> >>)
                /\ Goto(t, "in_exec")
                /\ running' = {}
                /\ UNCHANGED lresult
    /\ last' = NoCall
    /\ UNCHANGED << jose, variant, config, regvars, loadvars, hook_waiting_queues,
                    future_done, lhook, levent, lsieve, arrivals >>

\* _execute_hook without the except clause: the exception leaves launch
HookRaisedPropagates(t, close) ==
    /\ Log(t, close \o << << "caught", "" >> >>)
    /\ Return(t, "raised")

\* "except Exception: ... return False" of _execute_hook
HookRaised(t, close) ==
    /\ Log(t, close \o << << "caught", "" >> >>)
    /\ lresult' = [lresult EXCEPT ![t] = "False"]
    /\ Goto(t, "release")
    /\ running' = {t}

\* the rest of _execute_hook: the hook's function returned or raised (or, in
\* cloudbot, was not called because a parameter was missing); an exception of
\* the function is caught, the result is sent
ExecReturn(t) ==
    /\ lpc[t] = "in_exec"
    /\ running = {}
    /\ IF ~InCallable(t)
       THEN /\ lresult' = [lresult EXCEPT ![t] = "True"]
            /\ Goto(t, "release")
            /\ running' = {t}
            /\ UNCHANGED ltrace
       ELSE \E out \in Outcomes(levent[t]) :
              LET close == IF variant = "cloudbot" THEN << << "close", "" >> >>
                           ELSE << >>
              IN  IF out.kind = "raise"
                     THEN HookRaised(t, close)
                     ELSE \E s \in Sends(out) :
                            /\ Log(t, close \o << << "returned", out.kind >> >> \o s.sent)
                            /\ IF s.err = None
                               THEN /\ lresult' = [lresult EXCEPT ![t] = "True"]
                                    /\ Goto(t, "release")
                                    /\ running' = {t}
                               ELSE Return(t, "raised")
    /\ last' = NoCall
    /\ UNCHANGED << jose, variant, config, regvars, loadvars, hook_waiting_queues,
                    future_done, lhook, levent, lsieve, arrivals >>

\* a queue that hands out its newest item first
QueueGetNewest(items) == << items[Len(items)], SubSeq(items, 1, Len(items) - 1) >>

\* queue.get() of an asyncio.Queue that is not empty: << the item, the rest >>
QueueGet(items) == << Head(items), Tail(items) >>

\* the mapping emptied in the place of the deletion of one key
DeleteKeyClears(queues, key) == EmptyDict

\* line 538: "del self._hook_waiting_queues[key]"
DeleteKey(queues, key) == DictDel(queues, key)

\* lines 535-548: the launch that ran a single_thread hook wakes the next
\* waiter of its key, or deletes the key when none waits; launch returns
LaunchRelease(t) ==
    /\ lpc[t] = "release"
    /\ running = {t}
    /\ LET key == HookKey(lhook[t])
       IN  IF ~HookFunc(lhook[t]).single_thread
           THEN /\ Return(t, lresult[t])
                /\ UNCHANGED << hook_waiting_queues, future_done, ltrace >>
           ELSE IF key \notin DOMAIN hook_waiting_queues
           THEN /\ Return(t, "raised")
                /\ Log(t, << << "KeyError", "" >> >>)
                /\ UNCHANGED << hook_waiting_queues, future_done >>
           ELSE LET queue == hook_waiting_queues[key]
                IN  IF ~queue.created \/ queue.items = << >>
                    THEN /\ hook_waiting_queues' = DeleteKey(hook_waiting_queues, key)
                         /\ Log(t, << << "del", "" >> >>)
                         /\ Return(t, lresult[t])
                         /\ UNCHANGED future_done
                    ELSE /\ hook_waiting_queues' =
                               DictSet(hook_waiting_queues, key,
                                       Queue(TRUE, QueueGet(queue.items)[2]))
                         /\ future_done' = future_done \cup {QueueGet(queue.items)[1]}
                         /\ Log(t, << << "wake", "" >> >>)
                         /\ Return(t, lresult[t])
    /\ arrivals' = SelectSeq(arrivals, LAMBDA a : a[2] # t)
    /\ last' = NoCall
    /\ UNCHANGED << jose, variant, config, regvars, loadvars, lhook, levent, lsieve >>

\* the caller of launch has the result and goes on; what the call did is
\* forgotten
LaunchDone(t) ==
    /\ t \in Dispatchers
    /\ lpc[t] = "ret"
    /\ running = {t}
    /\ Goto(t, "done")
    /\ running' = {}
    /\ lhook' = [lhook EXCEPT ![t] = NoHook]
    /\ levent' = [levent EXCEPT ![t] = NoEvent]
    /\ lsieve' = [lsieve EXCEPT ![t] = 1]
    /\ lresult' = [lresult EXCEPT ![t] = ""]
    /\ ltrace' = [ltrace EXCEPT ![t] = << >>]
    /\ last' = NoCall
    /\ UNCHANGED << jose, variant, config, regvars, loadvars, hook_waiting_queues,
                    future_done, arrivals >>

(***************************************************************************)
(* load_plugin(path), one action per stretch of code; the task keeps the   *)
(* event loop until a stretch ends at a suspension point.                  *)
(***************************************************************************)
\* load_plugin without the policy check
AllowedAlways(title) == TRUE

\* lines 141-151 of cloudbot: the plugin-enable policy (obrbot has none)
Allowed(title) ==
    IF variant = "cloudbot" /\ config.plugin_loading
    THEN IF config.use_whitelist THEN title \in config.whitelist
         ELSE title \notin config.blacklist
    ELSE TRUE

SourcesOf(title) == IF title = "a" THEN {"s1", "s2"} ELSE {"s1"}

Sum(f) == f["a.py"] + f["b.py"]

\* history: the calls of load_plugin in progress other than t see the registry
\* change
Disturb(t, changed) ==
    ldirty' = [x \in Loaders |->
                  IF x # t /\ pc[x] # "idle" /\ changed THEN TRUE ELSE ldirty[x]]

\* the task gather made for the load_plugin call of t is done: its result or
\* its exception is kept (line 126)
Gathered(t, how, plugin) ==
    IF gather.state = "none" THEN gather
    ELSE [gather EXCEPT !.done[t].ret = how, !.done[t].plugin = plugin]

\* load_plugin returns
LoadReturn(t, how, plugin) ==
    /\ pc' = [pc EXCEPT ![t] = "idle"]
    /\ last' = Call("load_plugin", Basename(lplugin[t].path), how, plugin,
                    lsnap[t], ldirty[t])
    /\ lplugin' = [lplugin EXCEPT ![t] = NoLoad]
    /\ lnext' = [lnext EXCEPT ![t] = 1]
    /\ lsnap' = [lsnap EXCEPT ![t] = EmptyRegistry]
    /\ gather' = Gathered(t, how, plugin)
    /\ running' = {}

\* load_plugin is called: lines 137-151; a call made by load_all is the task
\* gather made for one path, which starts when the event loop runs it
LoadPlugin(t) ==
    /\ t \in Loaders
    /\ pc[t] = "idle"
    /\ running = {}
    /\ \E path \in Paths :
         /\ gather.state # "none"
              => gather.done[t].path = path /\ gather.done[t].ret = "pending"
         /\ IF Allowed(Splitext0(Basename(path)))
            THEN /\ pc' = [pc EXCEPT ![t] = "unload"]
                 /\ lplugin' = [lplugin EXCEPT ![t] = [path |-> path, plugin |-> NoPlugin]]
                 /\ lsnap' = [lsnap EXCEPT ![t] = Registry]
                 /\ last' = NoCall
                 /\ gather' = Gathered(t, "running", NoPlugin)
                 /\ running' = {t}
            ELSE /\ last' = Call("load_plugin", Basename(path), "not allowed", NoPlugin,
                                 Registry, FALSE)
                 /\ gather' = Gathered(t, "not allowed", NoPlugin)
                 /\ UNCHANGED << pc, lplugin, lsnap, running >>
    /\ ldirty' = [ldirty EXCEPT ![t] = FALSE]
    /\ UNCHANGED << jose, variant, config, regvars, objects, added, lnext, launchvars >>

\* lines 153-155: unload the plugin loaded from this path, if there is one
LoadUnload(t) ==
    /\ pc[t] = "unload"
    /\ running = {t}
    /\ LET file_name == Basename(lplugin[t].path)
       IN  IF file_name \in DOMAIN plugins
           THEN LET res == Unload(Registry, lplugin[t].path)
                IN  /\ SetRegistry(res[1])
                    /\ Disturb(t, res[1] # Registry)
                    /\ IF res[2] \in BOOLEAN
                       THEN /\ pc' = [pc EXCEPT ![t] = "import"]
                            /\ last' = Call("_unload", file_name, res[2],
                                            plugins[file_name], Registry, FALSE)
                            /\ UNCHANGED << lplugin, lnext, lsnap, gather, running >>
                       ELSE LoadReturn(t, res[2], NoPlugin)
           ELSE /\ pc' = [pc EXCEPT ![t] = "import"]
                /\ last' = NoCall
                /\ UNCHANGED << regvars, lplugin, lnext, lsnap, ldirty, gather, running >>
    /\ UNCHANGED << jose, variant, config, objects, added, launchvars >>

\* lines 157-168: import or reload the module and make the Plugin object.  The
\* import fails on any error of the module; defining a table that is still in
\* the metadata is one (sqlalchemy refuses it).
LoadImport(t) ==
    /\ pc[t] = "import"
    /\ running = {t}
    /\ LET file_name == Basename(lplugin[t].path)
           title == Splitext0(file_name)
       IN  \/ /\ LoadReturn(t, "import failed", NoPlugin)
              /\ UNCHANGED << objects, db_metadata >>
           \/ /\ Sum(objects) < MaxLoads
              /\ \E src \in SourcesOf(title) :
                   /\ ModuleTables(variant, title, src) \cap db_metadata = {}
                   /\ db_metadata' = db_metadata \cup ModuleTables(variant, title, src)
                   /\ lplugin' = [lplugin EXCEPT ![t].plugin =
                                      Plugin(file_name, title, objects[file_name] + 1, src)]
              /\ objects' = [objects EXCEPT ![file_name] = @ + 1]
              /\ pc' = [pc EXCEPT ![t] = "tables"]
              /\ last' = NoCall
              /\ UNCHANGED << lnext, lsnap, gather, running >>
    /\ UNCHANGED << jose, variant, config, plugins, commands, raw_triggers,
                    catch_all_triggers, event_type_hooks, regex_hooks, sieves,
                    added, ldirty, launchvars >>

\* line 173 of cloudbot: plugin.create_tables waits for the executor when the
\* plugin has tables
LoadCreateTables(t) ==
    /\ pc[t] = "tables"
    /\ running = {t}
    /\ LET p == lplugin[t].plugin
       IN  IF ModuleTables(variant, p.title, p.src) # {}
           THEN /\ pc' = [pc EXCEPT ![t] = "tables_wait"]
                /\ running' = {}
           ELSE /\ pc' = [pc EXCEPT ![t] = "onload"]
                /\ UNCHANGED running
    /\ last' = NoCall
    /\ UNCHANGED << jose, variant, config, regvars, objects, added, lplugin, lnext, lsnap,
                    ldirty, gather, launchvars >>

\* the executor created the tables
LoadTablesCreated(t) ==
    /\ pc[t] = "tables_wait"
    /\ running = {}
    /\ pc' = [pc EXCEPT ![t] = "onload"]
    /\ running' = {t}
    /\ last' = NoCall
    /\ UNCHANGED << jose, variant, config, regvars, objects, added, lplugin, lnext, lsnap,
                    ldirty, gather, launchvars >>

\* lines 176-177: the next on-load hook is launched, or the loop is over
LoadOnLoad(t) ==
    /\ pc[t] = "onload"
    /\ running = {t}
    /\ LET hooks == HooksOfType(lplugin[t].plugin, StartType(variant))
       IN  IF lnext[t] <= Len(hooks)
           THEN /\ pc' = [pc EXCEPT ![t] = "launch"]
                /\ lhook' = [lhook EXCEPT ![t] = hooks[lnext[t]]]
                /\ \E event \in StartEvents : levent' = [levent EXCEPT ![t] = event]
                /\ lsieve' = [lsieve EXCEPT ![t] = 1]
                /\ Goto(t, "sieve")
           ELSE /\ pc' = [pc EXCEPT ![t] = "index"]
                /\ UNCHANGED << lpc, lhook, levent, lsieve >>
    /\ last' = NoCall
    /\ UNCHANGED << jose, variant, config, regvars, objects, added, lplugin, lnext, lsnap,
                    ldirty, gather, hook_waiting_queues, future_done, lresult, ltrace,
                    arrivals, running >>

\* the failure branch without its return: load_plugin goes on to index
OnLoadFailureFallsThrough(r, plugin) == IndexPlugin(unregister_tables(r, plugin), plugin)

\* lines 179-183: "if not success": the tables are unregistered and
\* load_plugin returns, nothing is indexed
OnLoadFailure(r, plugin) == unregister_tables(r, plugin)

\* lines 178-183: launch returned
LoadOnLoadDone(t) ==
    /\ pc[t] = "launch"
    /\ lpc[t] = "ret"
    /\ running = {t}
    /\ Goto(t, "idle")
    /\ lhook' = [lhook EXCEPT ![t] = NoHook]
    /\ levent' = [levent EXCEPT ![t] = NoEvent]
    /\ lsieve' = [lsieve EXCEPT ![t] = 1]
    /\ lresult' = [lresult EXCEPT ![t] = ""]
    /\ ltrace' = [ltrace EXCEPT ![t] = << >>]
    /\ IF lresult[t] = "True"
       THEN /\ pc' = [pc EXCEPT ![t] = "onload"]
            /\ lnext' = [lnext EXCEPT ![t] = @ + 1]
            /\ last' = NoCall
            /\ UNCHANGED << regvars, lplugin, lsnap, gather, running >>
       ELSE IF lresult[t] = "False"
       THEN /\ SetRegistry(OnLoadFailure(Registry, lplugin[t].plugin))
            /\ LoadReturn(t, "onload failed", lplugin[t].plugin)
       ELSE /\ LoadReturn(t, "raised", lplugin[t].plugin)
            /\ UNCHANGED regvars
    /\ UNCHANGED << jose, variant, config, objects, added, ldirty, hook_waiting_queues,
                    future_done, arrivals >>

\* lines 185-231: the plugin and its hooks are indexed
LoadIndex(t) ==
    /\ pc[t] = "index"
    /\ running = {t}
    /\ SetRegistry(IndexPlugin(Registry, lplugin[t].plugin))
    /\ Disturb(t, TRUE)
    /\ LoadReturn(t, "loaded", lplugin[t].plugin)
    /\ UNCHANGED << jose, variant, config, objects, added, launchvars >>

(***************************************************************************)
(* _unload(path) called from outside load_plugin (the reloader, the bot),  *)
(* and add_hook: neither has a suspension point.                           *)
(***************************************************************************)
UnloadCall ==
    /\ running = {}
    /\ \E path \in Paths :
         LET file_name == Basename(path)
             res == Unload(Registry, path)
         IN  /\ SetRegistry(res[1])
             /\ Disturb(0, res[1] # Registry)
             /\ last' = Call("_unload", file_name, res[2],
                             IF file_name \in DOMAIN plugins
                             THEN plugins[file_name] ELSE NoPlugin,
                             Registry, FALSE)
    /\ UNCHANGED << jose, variant, config, objects, added, pc, lplugin, lnext, lsnap,
                    gather, launchvars, running >>

\* add_hook without the refusals
RefusedNever(type) == FALSE

\* the hook kinds add_hook refuses
Refused(type) ==
    IF variant = "cloudbot" THEN type = "onload" ELSE type \in {"on_start", "command"}

\* add_hook(hook_type, function): lines 322-335 get or make the plugin of the
\* core file, lines 339-340 refuse a kind, the rest indexes the new hook
add_hook(r, file, func, n) ==
    LET filename == InternalName(file)
        plugin == IF filename \in DOMAIN r.plugins THEN r.plugins[filename]
                  ELSE Plugin(filename, Splitext0(filename), 0, "core")
        r1 == [r EXCEPT !.plugins = DictSet(r.plugins, filename, plugin)]
    IN  IF Refused(func.type) THEN [r1 EXCEPT !.err = "ValueError"]
        ELSE RegisterHook(r1, Hook(plugin, func.name, n))

AddHook ==
    /\ running = {}
    /\ added < MaxAddHooks
    /\ added' = added + 1
    /\ \E file \in CoreFiles :
         \E func \in SeqToSet(ModuleFuncs(variant, Splitext0(InternalName(file)), "core")) :
           LET r == add_hook(Registry, file, func, added + 1)
           IN  /\ SetRegistry(r)
               /\ Disturb(0, TRUE)
               /\ last' = Call("add_hook", InternalName(file), r.err,
                               Plugin(func.name, func.type, added + 1, "core"),
                               Registry, FALSE)
    /\ UNCHANGED << jose, variant, config, objects, pc, lplugin, lnext, lsnap, gather,
                    launchvars, running >>

(***************************************************************************)
(* Dispatch alone: the bot after load_all loaded plugins/a.py and          *)
(* plugins/b.py, with NumDispatch concurrent callers of launch.            *)
(***************************************************************************)
LoadedRegistry ==
    LET a == Plugin("a.py", "a", 1, "s1")
        b == Plugin("b.py", "b", 2, "s1")
        r == [EmptyRegistry EXCEPT !.db_metadata = ModuleTables(variant, "a", "s1")
                                                   \cup ModuleTables(variant, "b", "s1")]
    IN  IndexPlugin(IndexPlugin(r, a), b)

InitLaunch ==
    /\ InitRest
    /\ jose = NoJosephus
    /\ config = Config({}, FALSE, FALSE, {}, {})
    /\ objects = [f \in {Basename(p) : p \in Paths} |-> 1]
    /\ plugins = LoadedRegistry.plugins
    /\ commands = LoadedRegistry.commands
    /\ raw_triggers = LoadedRegistry.raw_triggers
    /\ catch_all_triggers = LoadedRegistry.catch_all_triggers
    /\ event_type_hooks = LoadedRegistry.event_type_hooks
    /\ regex_hooks = LoadedRegistry.regex_hooks
    /\ sieves = LoadedRegistry.sieves
    /\ db_metadata = LoadedRegistry.db_metadata

NextLaunch ==
    \E t \in Dispatchers :
        \/ LaunchCall(t)
        \/ LaunchSieve(t)
        \/ SieveReturn(t)
        \/ LaunchHelp(t)
        \/ LaunchGate(t)
        \/ LaunchWake(t)
        \/ LaunchExec(t)
        \/ ExecReturn(t)
        \/ LaunchRelease(t)
        \/ LaunchDone(t)

SpecLaunch == InitLaunch /\ [][NextLaunch]_vars

(***************************************************************************)
(* The registry: NumLoaders concurrent callers of load_plugin (each runs   *)
(* the on-load hooks through launch), _unload and add_hook.                *)
(***************************************************************************)
Next ==
    \/ \E t \in Loaders :
          \/ LoadPlugin(t)
          \/ LoadUnload(t)
          \/ LoadImport(t)
          \/ LoadCreateTables(t)
          \/ LoadTablesCreated(t)
          \/ LoadOnLoad(t)
          \/ LoadOnLoadDone(t)
          \/ LoadIndex(t)
          \/ LaunchSieve(t)
          \/ LaunchHelp(t)
          \/ LaunchGate(t)
          \/ LaunchWake(t)
          \/ LaunchExec(t)
          \/ ExecReturn(t)
          \/ LaunchRelease(t)
    \/ UnloadCall
    \/ AddHook

Spec == Init /\ [][Next]_vars

(***************************************************************************)
(* load_all(plugin_dir) on the new PluginManager: one load_plugin task per *)
(* *.py file of the directory, all handed to asyncio.gather.               *)
(***************************************************************************)
\* the files glob may find, in the order of their tasks
PathList == << "plugins/a.py", "plugins/b.py" >>

\* what a load_plugin call comes to when it returns, and when it raises
Returned == {"loaded", "import failed", "onload failed", "not allowed"}
Unfinished == {"pending", "running"}

\* lines 123-126: the paths are globbed, a load_plugin coroutine is made for
\* each, gather makes them tasks and load_all waits for the gather
LoadAll ==
    /\ gather.state = "none"
    /\ running = {}
    /\ \A t \in Loaders : pc[t] = "idle"
    /\ \E files \in SUBSET Paths :
         gather' = [state |-> "waiting",
                    done |-> [t \in Tasks |->
                                IF /\ t \in Loaders
                                   /\ t - NumDispatch <= Len(PathList)
                                   /\ PathList[t - NumDispatch] \in files
                                THEN Child(PathList[t - NumDispatch], "pending", NoPlugin)
                                ELSE Child("", "", NoPlugin)]]
    /\ last' = NoCall
    /\ UNCHANGED << jose, variant, config, regvars, objects, added, pc, lplugin, lnext,
                    lsnap, ldirty, launchvars, running >>

\* the first exception of a child ends the gather at once, the other children
\* are cancelled
LoadAllReturnCancels ==
    /\ gather.state = "waiting"
    /\ running = {}
    /\ LET rets == {gather.done[t].ret : t \in Loaders} \ {""}
       IN  \/ /\ rets \ (Returned \cup Unfinished) # {}
              /\ gather' = [state |-> "raised",
                            done |-> [t \in Tasks |->
                                        IF gather.done[t].ret \in Unfinished
                                        THEN [gather.done[t] EXCEPT !.ret = "cancelled"]
                                        ELSE gather.done[t]]]
              /\ pc' = [t \in Loaders |-> "idle"]
              /\ lpc' = [t \in Tasks |-> "idle"]
           \/ /\ rets \subseteq Returned
              /\ gather' = [gather EXCEPT !.state = "returned"]
              /\ UNCHANGED << pc, lpc >>
    /\ last' = NoCall
    /\ UNCHANGED << jose, variant, config, regvars, objects, added, lplugin, lnext,
                    lsnap, ldirty, hook_waiting_queues, future_done, lhook, levent,
                    lsieve, lresult, ltrace, arrivals, running >>

\* line 126: load_all goes on when the gather is done: with the first
\* exception of a child (return_exceptions is not set; the other children go
\* on running), or when every child has returned
LoadAllReturn ==
    /\ gather.state = "waiting"
    /\ running = {}
    /\ LET rets == {gather.done[t].ret : t \in Loaders} \ {""}
       IN  \/ /\ rets \ (Returned \cup Unfinished) # {}
              /\ gather' = [gather EXCEPT !.state = "raised"]
           \/ /\ rets \subseteq Returned
              /\ gather' = [gather EXCEPT !.state = "returned"]
    /\ last' = NoCall
    /\ UNCHANGED << jose, variant, config, regvars, objects, added, pc, lplugin, lnext,
                    lsnap, ldirty, launchvars, running >>

\* the event loop runs the task of a load_plugin call that gather made
LoadAllTask(t) ==
    /\ gather.state # "none"
    /\ LoadPlugin(t)

NextLoadAll ==
    \/ LoadAll
    \/ LoadAllReturn
    \/ \E t \in Loaders :
          \/ LoadAllTask(t)
          \/ LoadUnload(t)
          \/ LoadImport(t)
          \/ LoadCreateTables(t)
          \/ LoadTablesCreated(t)
          \/ LoadOnLoad(t)
          \/ LoadOnLoadDone(t)
          \/ LoadIndex(t)
          \/ LaunchSieve(t)
          \/ LaunchHelp(t)
          \/ LaunchGate(t)
          \/ LaunchExec(t)
          \/ ExecReturn(t)
          \/ LaunchRelease(t)

InitLoadAll == Init

SpecLoadAll == InitLoadAll /\ [][NextLoadAll]_vars

(***************************************************************************)
(* run_shutdown_hooks() of obrbot, on the bot after load_all loaded        *)
(* plugins/a.py and plugins/b.py and core code called add_hook.            *)
(***************************************************************************)
\* the launch calls run_shutdown_hooks collects: the on_stop hooks of the
\* plugins, plugin after plugin
StopHooks ==
    LET Of(file_name) == IF file_name \in DOMAIN plugins
                         THEN HooksOfType(plugins[file_name], "on_stop") ELSE << >>
    IN  Of(Basename(PathList[1])) \o Of(Basename(PathList[2]))

\* lines 481-486: the loop over self.plugins.values() reads plugin.on_stop,
\* which a Plugin made by add_hook (without code, lines 514-517) does not
\* have; then gather makes the launch coroutines tasks
RunShutdownHooks ==
    /\ variant = "obrbot"
    /\ running = {}
    /\ gather.state = "none"
    /\ \A t \in Tasks : lpc[t] = "idle"
    /\ IF \E f \in DOMAIN plugins : plugins[f].src = "core"
       THEN /\ last' = Call("run_shutdown_hooks", "", "AttributeError", NoPlugin,
                            Registry, FALSE)
            /\ UNCHANGED gather
       ELSE /\ last' = NoCall
            /\ gather' = [state |-> "waiting",
                          done |-> [t \in Tasks |->
                                      IF t <= Len(StopHooks)
                                      THEN Child(StopHooks[t].name, "pending",
                                                 StopHooks[t].plugin)
                                      ELSE Child("", "", NoPlugin)]]
    /\ UNCHANGED << jose, variant, config, regvars, objects, added, pc, lplugin, lnext,
                    lsnap, ldirty, launchvars, running >>

\* the event loop runs one of the tasks: launch(hook, Event(bot=, hook=))
ShutdownTask(t) ==
    /\ gather.state # "none"
    /\ gather.done[t].ret = "pending"
    /\ lpc[t] = "idle"
    /\ running = {}
    /\ lhook' = [lhook EXCEPT ![t] = Hook(gather.done[t].plugin, gather.done[t].path, 0)]
    /\ \E event \in StartEvents : levent' = [levent EXCEPT ![t] = event]
    /\ lsieve' = [lsieve EXCEPT ![t] = 1]
    /\ Goto(t, "sieve")
    /\ gather' = [gather EXCEPT !.done[t].ret = "running"]
    /\ running' = {t}
    /\ last' = NoCall
    /\ UNCHANGED << jose, variant, config, regvars, objects, added, pc, lplugin, lnext,
                    lsnap, ldirty, hook_waiting_queues, future_done, lresult, ltrace,
                    arrivals >>

\* launch returned or raised: the task is done
ShutdownTaskDone(t) ==
    /\ gather.done[t].ret = "running"
    /\ lpc[t] = "ret"
    /\ running = {t}
    /\ gather' = [gather EXCEPT !.done[t].ret = lresult[t]]
    /\ Goto(t, "done")
    /\ running' = {}
    /\ last' = NoCall
    /\ UNCHANGED << jose, variant, config, regvars, objects, added, pc, lplugin, lnext,
                    lsnap, ldirty, hook_waiting_queues, future_done, lhook, levent,
                    lsieve, lresult, ltrace, arrivals >>

\* line 486: run_shutdown_hooks goes on when the gather is done: with the
\* first exception of a launch, or when every launch has returned
ShutdownReturn ==
    /\ gather.state = "waiting"
    /\ running = {}
    /\ LET rets == {gather.done[t].ret : t \in Tasks} \ {""}
       IN  \/ /\ rets \ ({"True", "False"} \cup Unfinished) # {}
              /\ gather' = [gather EXCEPT !.state = "raised"]
              /\ last' = Call("run_shutdown_hooks", "", "raised", NoPlugin, Registry, FALSE)
           \/ /\ rets \subseteq {"True", "False"}
              /\ gather' = [gather EXCEPT !.state = "returned"]
              /\ last' = Call("run_shutdown_hooks", "", None, NoPlugin, Registry, FALSE)
    /\ UNCHANGED << jose, variant, config, regvars, objects, added, pc, lplugin, lnext,
                    lsnap, ldirty, launchvars, running >>

InitShutdown ==
    /\ InitLaunch
    /\ variant = "obrbot"

NextShutdown ==
    \/ AddHook
    \/ RunShutdownHooks
    \/ ShutdownReturn
    \/ \E t \in Dispatchers :
          \/ ShutdownTask(t)
          \/ LaunchSieve(t)
          \/ LaunchHelp(t)
          \/ LaunchGate(t)
          \/ LaunchExec(t)
          \/ ExecReturn(t)
          \/ LaunchRelease(t)
          \/ ShutdownTaskDone(t)

SpecShutdown == InitShutdown /\ [][NextShutdown]_vars

(***************************************************************************)
(* Dispatch of the commands of plugins/a.py while the file is reloaded:    *)
(* launches in flight keep the Hook object they were called with.          *)
(***************************************************************************)
\* a caller of launch dispatches an event to a command of plugins/a.py that
\* it found in commands
LaunchCommand(t) ==
    /\ t \in Dispatchers
    /\ lpc[t] = "idle"
    /\ \A u \in Dispatchers : u < t => lpc[u] # "idle"
    /\ running = {}
    /\ \E a \in DOMAIN commands, event \in Events :
         /\ commands[a].plugin.file_name = Basename(PathList[1])
         /\ lhook' = [lhook EXCEPT ![t] = commands[a]]
         /\ levent' = [levent EXCEPT ![t] = event]
    /\ lsieve' = [lsieve EXCEPT ![t] = 1]
    /\ Goto(t, "sieve")
    /\ running' = {t}
    /\ last' = NoCall
    /\ UNCHANGED << jose, variant, config, regvars, loadvars, hook_waiting_queues,
                    future_done, lresult, ltrace, arrivals >>

\* load_plugin(path) of the loaded plugins/a.py after the file was edited to
\* its second source, which has no tables and no on-load hook: lines 153-231
\* run without a suspension point
Reload ==
    /\ running = {}
    /\ objects[Basename(PathList[1])] < MaxLoads
    /\ LET file_name == Basename(PathList[1])
           plugin == Plugin(file_name, Splitext0(file_name), objects[file_name] + 1, "s2")
           res == Unload(Registry, PathList[1])
       IN  /\ objects' = [objects EXCEPT ![file_name] = @ + 1]
           /\ IF res[2] \in BOOLEAN
              THEN /\ SetRegistry(IndexPlugin(res[1], plugin))
                   /\ last' = Call("load_plugin", file_name, "loaded", plugin,
                                   Registry, FALSE)
              ELSE /\ SetRegistry(res[1])
                   /\ last' = Call("load_plugin", file_name, res[2], NoPlugin,
                                   Registry, FALSE)
    /\ UNCHANGED << jose, variant, config, added, pc, lplugin, lnext, lsnap, ldirty,
                    gather, launchvars, running >>

NextReload ==
    \/ Reload
    \/ \E t \in Dispatchers :
          \/ LaunchCommand(t)
          \/ LaunchSieve(t)
          \/ SieveReturn(t)
          \/ LaunchHelp(t)
          \/ LaunchGate(t)
          \/ LaunchWake(t)
          \/ LaunchExec(t)
          \/ ExecReturn(t)
          \/ LaunchRelease(t)
          \/ LaunchDone(t)

InitReload == InitLaunch

SpecReload == InitReload /\ [][NextReload]_vars

(***************************************************************************)
(* The bot at work: one caller of load_plugin (the reloader) while one     *)
(* caller of launch dispatches events to the hooks the indices hold.  The   *)
(* two never launch the same key, so no launch waits for a future.         *)
(***************************************************************************)
NextServe ==
    \/ \E t \in {NumDispatch + 1} :
          \/ LoadPlugin(t)
          \/ LoadUnload(t)
          \/ LoadImport(t)
          \/ LoadCreateTables(t)
          \/ LoadTablesCreated(t)
          \/ LoadOnLoad(t)
          \/ LoadOnLoadDone(t)
          \/ LoadIndex(t)
    \/ \E t \in {1} :
          \/ LaunchCall(t)
          \/ LaunchDone(t)
    \/ \E t \in {1, NumDispatch + 1} :
          \/ LaunchSieve(t)
          \/ SieveReturn(t)
          \/ LaunchHelp(t)
          \/ LaunchGate(t)
          \/ LaunchExec(t)
          \/ ExecReturn(t)
          \/ LaunchRelease(t)

InitServe == Init

SpecServe == InitServe /\ [][NextServe]_vars

(***************************************************************************)
(* plugins/eliralin_utility.py: the josephus command.  It is a coroutine   *)
(* without a suspension point, so the whole call runs inline on the event  *)
(* loop; the model takes one step for each turn of its while loop.         *)
(***************************************************************************)
\* text.split() for the texts the command is given: two or three integers
JosephusTexts ==
    { << size, every_x, current >> : size \in -1 .. MaxSize,
                                     every_x \in -1 .. MaxEvery,
                                     current \in -2 .. MaxSize }
      \cup { << 3, 1 >> }

\* sum(alive): the number of positions alive
SumAlive(alive) == Cardinality({i \in 1 .. Len(alive) : alive[i]})

\* alive[current] is an IndexError outside -len(alive) .. len(alive) - 1
IndexInRange(alive, current) == -Len(alive) <= current /\ current <= Len(alive) - 1

\* the place of alive[current] in the sequence alive: Python counts from 0,
\* and a negative index counts from the end
PyIndex(alive, current) ==
    IF current < 0 THEN current + Len(alive) + 1 ELSE current + 1

\* line 25: current += 1 if current < size - 1 else 1 - size
NextCurrent(current, size) ==
    IF current < size - 1 THEN current + 1 ELSE current + 1 - size

\* line 24: till_kill -= 1
Decrement(till_kill) ==
    IF till_kill - 1 < -MaxBelow THEN -MaxBelow ELSE till_kill - 1

\* lines 11-15: the text is split; any number of words but three is answered
\* at once, three integers start the loop with everybody alive
JosephusCall ==
    /\ jose.pc = "call"
    /\ IF Len(jose.split) # 3
       THEN jose' = [jose EXCEPT !.pc = "returned", !.ret = "arguments"]
       ELSE jose' = [jose EXCEPT !.pc = "loop",
                                 !.size = jose.split[1],
                                 !.every_x = jose.split[2],
                                 !.current = jose.split[3],
                                 !.alive = [i \in 1 .. jose.split[1] |-> TRUE],
                                 !.till_kill = 0]
    /\ UNCHANGED << variant, config, regvars, loadvars, launchvars, running, last >>

\* line 17: alive[current] raises IndexError, which ends the call
JosephusIndexError ==
    /\ jose.pc = "loop"
    /\ ~IndexInRange(jose.alive, jose.current)
    /\ jose' = [jose EXCEPT !.pc = "raised", !.ret = "IndexError"]
    /\ UNCHANGED << variant, config, regvars, loadvars, launchvars, running, last >>

\* lines 17-19 and 26: the position is alive and the only one: the loop is
\* left and the position is reported
JosephusBreak ==
    /\ jose.pc = "loop"
    /\ IndexInRange(jose.alive, jose.current)
    /\ jose.alive[PyIndex(jose.alive, jose.current)]
    /\ SumAlive(jose.alive) = 1
    /\ jose' = [jose EXCEPT !.pc = "returned", !.ret = "position"]
    /\ UNCHANGED << variant, config, regvars, loadvars, launchvars, running, last >>

\* lines 17-25: any other turn of the loop: a position alive is killed when
\* till_kill is 0 and counted otherwise, and current moves on
JosephusLoop ==
    /\ jose.pc = "loop"
    /\ IndexInRange(jose.alive, jose.current)
    /\ LET i == PyIndex(jose.alive, jose.current)
           next == NextCurrent(jose.current, jose.size)
       IN  IF ~jose.alive[i]
           THEN jose' = [jose EXCEPT !.current = next]
           ELSE /\ SumAlive(jose.alive) # 1
                /\ IF jose.till_kill = 0
                   THEN jose' = [jose EXCEPT !.alive[i] = FALSE,
                                             !.till_kill = jose.every_x - 1,
                                             !.current = next]
                   ELSE jose' = [jose EXCEPT !.till_kill = Decrement(jose.till_kill),
                                             !.current = next]
    /\ UNCHANGED << variant, config, regvars, loadvars, launchvars, running, last >>

NextJosephus ==
    \/ JosephusCall
    \/ JosephusIndexError
    \/ JosephusBreak
    \/ JosephusLoop

\* the bot with nothing loaded; the command is called with one of the texts
InitJosephus ==
    /\ InitRest
    /\ variant = "cloudbot"
    /\ config = Config({}, FALSE, FALSE, {}, {})
    /\ objects = [f \in {Basename(p) : p \in Paths} |-> 0]
    /\ plugins = EmptyDict
    /\ commands = EmptyDict
    /\ raw_triggers = EmptyDict
    /\ catch_all_triggers = << >>
    /\ event_type_hooks = EmptyDict
    /\ regex_hooks = << >>
    /\ sieves = << >>
    /\ db_metadata = {}
    /\ \E split \in JosephusTexts : jose = [NoJosephus EXCEPT !.pc = "call", !.split = split]

\* the call holds the event loop from its first line to its return, so
\* nothing can keep it from taking its next step
SpecJosephus == InitJosephus /\ [][NextJosephus]_vars /\ WF_vars(NextJosephus)

(***************************************************************************)
(* What the registry and launch are claimed to guarantee.                  *)
(***************************************************************************)
\* the launch of task t logged an entry with this tag
Has(t, tag) == \E i \in 1 .. Len(ltrace[t]) : ltrace[t][i][1] = tag

\* task t is between the single-thread check and the release of its key
Holding(t) == lpc[t] \in {"exec", "in_exec", "release"}

\* every hook some index holds
IndexedHooks == DispatchHooks \cup SeqToSet(sieves)

\* the Plugin objects of a file that own an indexed hook
Versions(file_name) ==
    {h.plugin : h \in {x \in IndexedHooks : x.plugin.file_name = file_name}}

\* the registry r without everything plugin owns, stated index by index
Without(r, plugin) ==
    LET Keep(h) == h.plugin # plugin
        KeepPair(pair) == pair[2].plugin # plugin
        Strip(d) ==
            LET kept == {k \in DOMAIN d : SelectSeq(d[k], Keep) # << >>}
            IN  [k \in kept |-> SelectSeq(d[k], Keep)]
    IN  [r EXCEPT !.plugins = [f \in {x \in DOMAIN r.plugins : r.plugins[x] # plugin}
                                  |-> r.plugins[f]],
                  !.commands = [a \in {x \in DOMAIN r.commands : Keep(r.commands[x])}
                                   |-> r.commands[a]],
                  !.raw_triggers = Strip(r.raw_triggers),
                  !.catch_all_triggers = SelectSeq(r.catch_all_triggers, Keep),
                  !.event_type_hooks = Strip(r.event_type_hooks),
                  !.regex_hooks = SelectSeq(r.regex_hooks, KeepPair),
                  !.sieves = SelectSeq(r.sieves, Keep)]

\* every hook of plugin is indexed in the way of its kind, except for the
\* aliases that were taken (the set taken) when it was indexed
AllIndexed(r, plugin, taken) ==
    /\ plugin.file_name \in DOMAIN r.plugins
    /\ r.plugins[plugin.file_name] = plugin
    /\ \A f \in SeqToSet(ModuleFuncs(variant, plugin.title, plugin.src)) :
         LET h == Hook(plugin, f.name, 0)
         IN  CASE f.type = "command" ->
                    \A a \in SeqToSet(f.aliases) \ taken :
                        a \in DOMAIN r.commands /\ r.commands[a] = h
               [] f.type = "irc_raw" ->
                    IF "*" \in f.triggers THEN Contains(r.catch_all_triggers, h)
                    ELSE \A g \in f.triggers :
                            g \in DOMAIN r.raw_triggers /\ Contains(r.raw_triggers[g], h)
               [] f.type = "event" ->
                    \A g \in f.types :
                        g \in DOMAIN r.event_type_hooks
                            /\ Contains(r.event_type_hooks[g], h)
               [] f.type = "regex" ->
                    \A i \in 1 .. Len(f.regexes) :
                        Contains(r.regex_hooks, << f.regexes[i], h >>)
               [] f.type = "sieve" -> Contains(r.sieves, h)
               [] OTHER -> TRUE

\* C1: For a single_thread hook, at most one execution of the callable is in
\* progress at any time for a given key (plugin title, function name): no two
\* launch calls are inside the callables of single_thread hooks of the same
\* key, whatever the number of concurrent calls and their interleaving.
C1_OneExecutionPerKey ==
    \A t \in Tasks : \A u \in Tasks \ {t} :
        (InCallable(t) /\ InCallable(u)
            /\ HookFunc(lhook[t]).single_thread /\ HookFunc(lhook[u]).single_thread)
        => HookKey(lhook[t]) # HookKey(lhook[u])

\* C1 witness: a launch is inside the callable of a single_thread hook while
\* two other launches of the same key wait in the key's queue
C1_Witness ==
    \E t \in Tasks :
        /\ InCallable(t)
        /\ HookFunc(lhook[t]).single_thread
        /\ Cardinality({u \in Tasks \ {t} : lpc[u] = "wait"
                                             /\ HookKey(lhook[u]) = HookKey(lhook[t])}) = 2

C3_OneVersionAfterReload ==
    (/\ last.op = "load_plugin"
     /\ last.ret = "loaded"
     /\ ~last.dirty
     /\ last.file_name \in DOMAIN last.snap.plugins)
    => Cardinality(Versions(last.file_name)) <= 1

\* C4: After _unload of a loaded plugin no hook of that plugin remains in any
\* index and its file name is not a key of plugins.
C4_NoTraceAfterUnload ==
    (last.op = "_unload" /\ last.plugin # NoPlugin)
    => /\ \A h \in IndexedHooks : h.plugin # last.plugin
       /\ last.file_name \notin DOMAIN plugins

\* C5: A registration (the indexing of load_plugin, or add_hook) never
\* replaces the hook an alias already maps to in commands: the first
\* registrant keeps the alias; and the load of the later plugin succeeds with
\* all its other hooks indexed.
C5_FirstRegistrantKeepsAlias ==
    [][ ((last'.op = "load_plugin" /\ last'.ret = "loaded")
            \/ (last'.op = "add_hook" /\ last'.ret = None))
        => /\ \A a \in DOMAIN commands :
                a \in DOMAIN commands' /\ commands'[a] = commands[a]
           /\ last'.op = "load_plugin"
                => AllIndexed(Registry', last'.plugin, DOMAIN commands) ]_vars

\* C5 witness: a load succeeded although an alias of one of the plugin's
\* commands was taken; the alias still maps to the other plugin's hook
C5_Witness ==
    /\ last.op = "load_plugin"
    /\ last.ret = "loaded"
    /\ \E f \in SeqToSet(ModuleFuncs(variant, last.plugin.title, last.plugin.src)) :
         /\ f.type = "command"
         /\ \E a \in SeqToSet(f.aliases) :
              /\ a \in DOMAIN commands
              /\ commands[a].plugin.file_name # last.file_name

\* C6 as stated: a load_plugin call in which an on-load hook reports failure
\* leaves plugins and the six indices exactly as they were before the call
\* (no other call changed them meanwhile).
C6_FailedLoadLeavesRegistry ==
    (last.op = "load_plugin" /\ last.ret = "onload failed" /\ ~last.dirty)
    => Indices(Registry) = Indices(last.snap)

\* C6 amended: a load_plugin call in which an on-load hook reports failure
\* registers no hook of the new plugin, and leaves plugins and the six
\* indices as they were before the call except that the version of the file
\* loaded before, if there was one and _unload did not refuse it, has been
\* unloaded and is not restored.
C6_FailedLoadUnloadsOnly ==
    (last.op = "load_plugin" /\ last.ret = "onload failed")
    => /\ \A h \in IndexedHooks : h.plugin # last.plugin
       /\ \A f \in DOMAIN plugins : plugins[f] # last.plugin
       /\ ~last.dirty
            => Indices(Registry) =
                 Indices(IF last.file_name \in DOMAIN last.snap.plugins
                            /\ ~IsDisabled(Splitext0(last.file_name))
                         THEN Without(last.snap, last.snap.plugins[last.file_name])
                         ELSE last.snap)

\* C6 witness: the failed load was a reload, and the old version is gone
C6_Witness ==
    /\ last.op = "load_plugin"
    /\ last.ret = "onload failed"
    /\ ~last.dirty
    /\ last.file_name \in DOMAIN last.snap.plugins
    /\ last.file_name \notin DOMAIN plugins

\* C7: When a required parameter of the hook is not an attribute of the
\* event, launch returns False and the callable is not invoked, in both
\* variants.
C7_MissingParameterFails ==
    \A t \in Tasks :
        (lpc[t] = "ret" /\ Has(t, "bind_failed"))
        => lresult[t] = "False" /\ ~Has(t, "invoke")

\* C8: An exception that escapes the callable of a hook is caught: launch
\* returns False and does not raise, for threaded and coroutine hooks,
\* single_thread or not.
C8_ExceptionIsFailure ==
    \A t \in Tasks : Has(t, "caught") => lresult[t] = "False"

\* C8 witness: the callable of a single_thread coroutine hook raised and
\* launch has returned
C8_Witness ==
    \E t \in Tasks :
        /\ lpc[t] = "ret"
        /\ Has(t, "caught")
        /\ HookFunc(lhook[t]).single_thread
        /\ ~HookFunc(lhook[t]).threaded

\* C9: When a sieve returns None for a hook that is not a lifecycle hook,
\* launch stops at once: it has returned False and the rejection is the last
\* thing it did; before it only sieves ran: no later sieve, no help check, no
\* use of the wait queue, no invocation of the callable.
C9_RejectionStopsLaunch ==
    \A t \in Tasks :
        \A i \in 1 .. Len(ltrace[t]) :
            ltrace[t][i] = << "rejected", "none" >>
            => /\ i = Len(ltrace[t])
               /\ \A j \in 1 .. i - 1 : ltrace[t][j][1] = "sieve"
               /\ lpc[t] = "ret"
               /\ lresult[t] = "False"

\* C9 witness: the first of two registered sieves returned None
C9_Witness ==
    \E t \in Tasks :
        /\ Len(sieves) = 2
        /\ Len(ltrace[t]) = 2
        /\ ltrace[t][2] = << "rejected", "none" >>

\* C10: When launch has returned, it sent the documentation exactly if it
\* reached the help check with a command hook that has auto_help and a doc,
\* and an event (the one the sieves gave back) whose text is empty; and when
\* it sent the documentation it returned False and did not invoke the
\* callable.
C10_AutoHelp ==
    \A t \in Tasks :
        lpc[t] = "ret"
        => /\ Has(t, "notice_doc")
                <=> /\ Has(t, "help")
                    /\ HookFunc(lhook[t]).type = "command"
                    /\ HookFunc(lhook[t]).auto_help
                    /\ HookFunc(lhook[t]).doc
                    /\ levent[t].text = EmptyStr
           /\ Has(t, "notice_doc") => lresult[t] = "False" /\ ~Has(t, "invoke")

\* C10 witness: the documentation was sent for the event the sieves gave back
C10_Witness ==
    \E t \in Tasks :
        /\ lpc[t] = "ret"
        /\ Has(t, "notice_doc")
        /\ Has(t, "sieve")


\* C11: When the import of load_plugin fails (and no other call changed the
\* registry meanwhile), load_plugin returns without raising; a plugin that
\* was loaded from the path before is then absent from plugins and no index
\* holds a hook of it; if none was loaded, plugins and the six indices are as
\* they were before the call.
C11_FailedImportLeavesAbsent ==
    (last.op = "load_plugin" /\ last.ret = "import failed" /\ ~last.dirty)
    => IF last.file_name \in DOMAIN last.snap.plugins
       THEN /\ last.file_name \notin DOMAIN plugins
            /\ \A h \in IndexedHooks : h.plugin # last.snap.plugins[last.file_name]
       ELSE Indices(Registry) = Indices(last.snap)


\* the aliases that map to hooks of plugins other than plugin
TakenByOthers(plugin) == {a \in DOMAIN commands : commands[a].plugin # plugin}

\* what a load_plugin call comes to when the load of its own file fails
Failed == {"import failed", "onload failed", "raised", "AssertionError", "ValueError"}

C13_LoadAllWaitsForAll ==
    gather.state \in {"returned", "raised"}
    => \A t \in Loaders : gather.done[t].ret \notin Unfinished


\* the enable policy of bot.config refuses the title
Disallowed(title) ==
    /\ config.plugin_loading
    /\ IF config.use_whitelist THEN title \notin config.whitelist
       ELSE title \in config.blacklist

C15_UnloadResult ==
    /\ last.op = "_unload"
         => /\ last.ret = TRUE
                 <=> /\ last.plugin # NoPlugin
                     /\ last.file_name \notin DOMAIN plugins
                     /\ \A h \in IndexedHooks : h.plugin # last.plugin
            /\ last.ret = FALSE => Indices(Registry) = Indices(last.snap)
    /\ (/\ last.op = "load_plugin"
        /\ last.ret = "loaded"
        /\ ~last.dirty
        /\ last.file_name \in DOMAIN last.snap.plugins
             => IsDisabled(Splitext0(last.file_name)))
       => \A h \in IndexedHooks :
            h.plugin.file_name = last.file_name => h.plugin = last.plugin


\* d with hook appended to the list under every key of keys
AppendedUnder(d, keys, hook) ==
    [k \in DOMAIN d \cup keys |->
        IF k \in keys THEN Append(IF k \in DOMAIN d THEN d[k] ELSE << >>, hook)
        ELSE d[k]]

C17_ShutdownCompletes ==
    /\ last.op = "run_shutdown_hooks" => last.ret = None
    /\ gather.state \in {"returned", "raised"}
         => \A t \in Tasks : gather.done[t].ret \notin Unfinished


\* the tags of raw events: two that hooks name and one that none names
RawTags == {"PRIVMSG", "NOTICE", "JOIN"}

\* the raw hooks selected for an event with this tag: each of
\* catch_all_triggers, and those listed in raw_triggers under the tag
SelectedRaw(tag) ==
    SeqToSet(catch_all_triggers)
        \cup (IF tag \in DOMAIN raw_triggers THEN SeqToSet(raw_triggers[tag]) ELSE {})

\* C18: For every raw hook of a plugin of a file that is in plugins: if its
\* triggers do not contain "*", it is listed in raw_triggers under each of
\* its triggers and under no other key, and not in catch_all_triggers, so
\* that an event selects it exactly if the event's tag is one of its
\* triggers; if its triggers contain "*", it is listed in
\* catch_all_triggers, so that every raw event selects it.
C18_RawTriggerIndex ==
    \A file_name \in DOMAIN plugins :
        plugins[file_name].src # "core"
        => \A h \in SeqToSet(HooksOfType(plugins[file_name], "irc_raw")) :
             IF "*" \in HookFunc(h).triggers
             THEN /\ Contains(catch_all_triggers, h)
                  /\ \A tag \in RawTags : h \in SelectedRaw(tag)
             ELSE /\ \A g \in HookFunc(h).triggers :
                       g \in DOMAIN raw_triggers /\ Contains(raw_triggers[g], h)
                  /\ \A g \in DOMAIN raw_triggers :
                       Contains(raw_triggers[g], h) => g \in HookFunc(h).triggers
                  /\ ~Contains(catch_all_triggers, h)
                  /\ \A tag \in RawTags :
                       h \in SelectedRaw(tag) <=> tag \in HookFunc(h).triggers

\* C18 witness: a plugin with a wildcard raw hook and add_hook's raw hook on
\* PRIVMSG are indexed: a PRIVMSG event selects both, a JOIN event only the
\* wildcard hook
C18_Witness ==
    /\ "a.py" \in DOMAIN plugins
    /\ plugins["a.py"].src = "s2"
    /\ Cardinality(SelectedRaw("PRIVMSG")) = 2
    /\ SelectedRaw("JOIN") = {Hook(plugins["a.py"], "all", 0)}


\* the entries of the launch of task t that satisfy Test, in order
Entries(t, Test(_)) == SelectSeq(ltrace[t], Test)

\* C19: When launch was called for a command hook, the callable was invoked
\* with an event whose text is not empty and has one line, and it returned
\* that text, then launch has returned True, the callable was invoked exactly
\* once, and exactly one message was sent: one reply whose content is the
\* text.
C19_EchoRepliesOnce ==
    \A t \in Tasks :
        LET IsInvoke(e) == e[1] = "invoke"
            IsSend(e) == e[1] \in {"reply", "message", "notice_doc"}
            IsEcho(e) == e = << "returned", "str" >>
        IN  (/\ lpc[t] = "ret"
             /\ HookFunc(lhook[t]).type = "command"
             /\ levent[t].text # EmptyStr
             /\ Len(levent[t].text) = 1
             /\ Entries(t, IsEcho) # << >>)
            => /\ lresult[t] = "True"
               /\ Len(Entries(t, IsInvoke)) = 1
               /\ Entries(t, IsSend) = << << "reply", << levent[t].text >> >> >>

\* C19 witness: the echo went through a sieve and came back as one reply
C19_Witness ==
    \E t \in Tasks :
        /\ lpc[t] = "ret"
        /\ HookFunc(lhook[t]).type = "command"
        /\ levent[t].text = Hello
        /\ Has(t, "sieve")
        /\ << "returned", "str" >> \in SeqToSet(ltrace[t])
        /\ << "reply", << Hello >> >> \in SeqToSet(ltrace[t])


\* C20: Whatever way the execution of a single_thread hook ends (the callable
\* returns None, a string, a list or a tuple, also an empty one, or raises),
\* the launch that leaves it wakes the next waiter of its key or removes the
\* busy marker of the key: a key is marked busy only while a launch of it is
\* between the check and the release, or a woken waiter of it is about to
\* go on; so no waiter is blocked for ever on a key nobody holds.
C20_KeyIsHandedOn ==
    \A key \in DOMAIN hook_waiting_queues :
        \E t \in Tasks :
            /\ lhook[t] # NoHook
            /\ HookKey(lhook[t]) = key
            /\ \/ Holding(t)
               \/ lpc[t] = "wait" /\ t \in future_done


\* C21: Launches of a single_thread hook are serialized by plugin title and
\* function name, not by Hook object: two launches whose hooks are different
\* objects of the same title and function name (the hook of a reload and the
\* stale hook of the version before) are never inside their callables at the
\* same time, and between the check and the release of one of them the
\* other is not past the check unless it waits in the queue of the key.
C21_StaleHookSerializes ==
    \A t \in Tasks : \A u \in Tasks \ {t} :
        (/\ lhook[t] # lhook[u]
         /\ lhook[t] # NoHook /\ lhook[u] # NoHook
         /\ lhook[t].plugin.title = lhook[u].plugin.title
         /\ lhook[t].name = lhook[u].name
         /\ HookFunc(lhook[t]).single_thread /\ HookFunc(lhook[u]).single_thread)
        => /\ ~(InCallable(t) /\ InCallable(u))
           /\ Holding(t) => lpc[u] \notin {"exec", "in_exec", "release"}

\* C21 witness: the stale hook of the first version is inside its callable,
\* the plugin has been reloaded, and a launch of the new hook object waits
C21_Witness ==
    \E t \in Tasks : \E u \in Tasks \ {t} :
        /\ InCallable(t)
        /\ lhook[t].plugin.id = 1
        /\ lhook[u].plugin.id = 2
        /\ lhook[u].name = lhook[t].name
        /\ lhook[u] \in DispatchHooks
        /\ lhook[t] \notin DispatchHooks
        /\ lpc[u] = "wait"


\* C22: A key is in _hook_waiting_queues only while a launch of that key is
\* executing or waiting: in every reachable state each key of the mapping
\* belongs to a launch that is between the single-thread check and its
\* release (waiting in the queue, running its hook, or releasing).
C22_KeyOnlyWhileInUse ==
    \A key \in DOMAIN hook_waiting_queues :
        \E t \in Tasks :
            /\ lpc[t] \in {"wait", "exec", "in_exec", "release"}
            /\ HookKey(lhook[t]) = key


\* the on-load functions the module of plugin declares before the function name
StartedBefore(plugin, name) ==
    LET fs == ModuleFuncs(variant, plugin.title, plugin.src)
        at == CHOOSE i \in 1 .. Len(fs) : fs[i].name = name
    IN  Cardinality({i \in 1 .. at - 1 : fs[i].type = StartType(variant)})

\* neither the plugin nor any hook of it is in plugins or in an index
NotIndexed(plugin) ==
    /\ \A h \in IndexedHooks : h.plugin # plugin
    /\ \A f \in DOMAIN plugins : plugins[f] # plugin

SievesRun(t) ==
    LET IsSieve(e) == e[1] = "sieve"
        es == Entries(t, IsSieve)
    IN  [i \in 1 .. Len(es) |-> es[i][2]]

\* the hook kinds the claim calls lifecycle kinds
IsLifecycle(hook) ==
    IF variant = "cloudbot" THEN HookFunc(hook).type = "onload"
    ELSE HookFunc(hook).type \in {"on_start", "on_stop"}

\* the launch of task t is past its call and not yet returned
InLaunch(t) ==
    lpc[t] \in {"sieve", "in_sieve", "help", "gate", "wait", "exec", "in_exec", "release"}

C25_SieveExceptionRejects ==
    \A t \in Tasks :
        \A i \in 1 .. Len(ltrace[t]) :
            ltrace[t][i] = << "rejected", "raise" >>
            => /\ lpc[t] = "ret"
               /\ lresult[t] = "False"
               /\ i = Len(ltrace[t])
               /\ ~Has(t, "invoke")
               /\ Len(SievesRun(t)) = i - 1

\* C25 witness: the second of two registered sieves raised
C25_Witness ==
    \E t \in Dispatchers :
        /\ Len(sieves) = 2
        /\ Len(ltrace[t]) = 3
        /\ ltrace[t][3] = << "rejected", "raise" >>
        /\ lresult[t] = "False"


\* C26: _unload of plugin P removes a command alias only when commands maps
\* that alias to a hook of P: after any _unload call, every alias that was
\* mapped to a hook of another plugin (an alias P declares but lost
\* included) is mapped to the same hook as before, and _unload adds no
\* alias.
C26_UnloadKeepsOthersAliases ==
    last.op = "_unload"
    => /\ DOMAIN commands \subseteq DOMAIN last.snap.commands
       /\ \A alias \in DOMAIN last.snap.commands :
            last.snap.commands[alias].plugin # last.plugin
            => /\ alias \in DOMAIN commands
               /\ commands[alias] = last.snap.commands[alias]

\* C26 witness: the plugin unloaded declares an alias that another plugin
\* holds, and the alias is still mapped to the hook of the other plugin
C26_Witness ==
    /\ last.op = "_unload"
    /\ last.ret = TRUE
    /\ last.plugin # NoPlugin
    /\ \E alias \in DOMAIN commands :
         /\ commands[alias].plugin # last.plugin
         /\ \E f \in SeqToSet(ModuleFuncs(variant, last.plugin.title, last.plugin.src)) :
              f.type = "command" /\ alias \in SeqToSet(f.aliases)


\* every alias the module of plugin declares
AliasesOf(plugin) ==
    UNION {SeqToSet(f.aliases) : f \in SeqToSet(ModuleFuncs(variant, plugin.title, plugin.src))}

\* C27: The assertions of _unload never fail: in every reachable state, for
\* every plugin in plugins that was loaded from a file, each trigger of each
\* of its raw hooks that is not a catch-all is a key of raw_triggers whose
\* list holds the hook, each catch-all raw hook is in catch_all_triggers,
\* each type of each event hook is a key of event_type_hooks whose list
\* holds the hook, and each regex pair and each sieve is in regex_hooks and
\* in sieves; and no _unload call, made directly or by load_plugin, ended
\* with an AssertionError or with the ValueError of list.remove.
C27_UnloadAssertionsHold ==
    /\ \A f \in DOMAIN plugins :
         plugins[f].src \in Sources
         => AllIndexed(Registry, plugins[f], AliasesOf(plugins[f]))
    /\ last.op = "_unload" => last.ret \in BOOLEAN
    /\ last.op = "load_plugin" => last.ret \notin {"AssertionError", "ValueError"}

\* C27 witness: _unload has removed a plugin that had a catch-all raw hook, an
\* event hook and a regex hook, while another plugin with a raw hook and a
\* sieve stays loaded
C27_Witness ==
    /\ last.op = "_unload"
    /\ last.ret = TRUE
    /\ last.plugin.src = "s2"
    /\ \E f \in DOMAIN plugins : plugins[f].title = "b"
    /\ sieves # << >>


\* C28: When load_plugin calls for the same path overlap, the registry they
\* leave holds one set of indexed hooks for that file, owned by the plugin
\* plugins maps the file name to: whenever no load_plugin call is in
\* progress (and no plugin is disabled, so that every _unload does its
\* work), every file has indexed hooks of at most one Plugin object, and
\* that object is the one in plugins.
C28_OverlappingLoadsLeaveOneVersion ==
    (/\ \A t \in Loaders : pc[t] = "idle"
     /\ config.disabled_plugins = {})
    => \A path \in Paths :
         LET file_name == Basename(path)
         IN  /\ Cardinality(Versions(file_name)) <= 1
             /\ \A plugin \in Versions(file_name) :
                  file_name \in DOMAIN plugins /\ plugins[file_name] = plugin


\* C29: launch never changes plugins, commands, raw_triggers,
\* catch_all_triggers, event_type_hooks, regex_hooks or sieves: every step
\* of every launch (its call and its return included, whatever the path:
\* rejection by a sieve, help, binding failure, exception, success) leaves
\* them as they are; and what launch writes of the registry is the
\* wait-queue mapping alone, of which a step of the launch of a
\* single_thread hook changes the entry of its own key and no other.
C29_LaunchWritesOnlyQueues ==
    [][/\ (\E t \in Tasks : lpc'[t] # lpc[t])
            => Indices(Registry)' = Indices(Registry)
       /\ hook_waiting_queues' # hook_waiting_queues
            => \E t \in Tasks :
                 /\ lpc'[t] # lpc[t]
                 /\ lpc[t] \in {"gate", "release"}
                 /\ HookFunc(lhook[t]).single_thread
                 /\ \A key \in (DOMAIN hook_waiting_queues
                                  \cup DOMAIN hook_waiting_queues')
                                 \ {<< lhook[t].plugin.title, lhook[t].name >>} :
                      /\ key \in DOMAIN hook_waiting_queues
                      /\ key \in DOMAIN hook_waiting_queues'
                      /\ hook_waiting_queues'[key] = hook_waiting_queues[key]
      ]_vars

\* C29 witness: a launch has returned after it deleted its key from the
\* mapping while the key of another launch is in it, with hooks indexed
C29_Witness ==
    \E t \in Tasks :
        /\ lpc[t] = "ret"
        /\ Has(t, "del")
        /\ hook_waiting_queues # EmptyDict
        /\ DOMAIN commands # {}
        /\ sieves # << >>


\* C30: In cloudbot every preparation of the event (prepare_threaded,
\* prepare) is followed by one matching cleanup (close_threaded, close) on
\* every path out of the execution step: when the execution step of a launch
\* is over, the launch has closed the event as many times as it prepared it.
C30_PrepareIsClosed ==
    \A t \in Tasks :
        LET IsPrepare(e) == e[1] = "prepare"
            IsClose(e) == e[1] = "close"
        IN  (variant = "cloudbot" /\ lpc[t] \in {"release", "ret"})
            => Len(Entries(t, IsClose)) = Len(Entries(t, IsPrepare))


\* C31: When the callable returned without raising, launch returns True and
\* has sent the result: nothing for None; for a list or tuple of any length
\* one primary reply (its first element) followed by one follow-up line for
\* each other element; for any other value one reply.
C31_ResultIsSent ==
    \A t \in Tasks :
        LET IsReturned(e) == e[1] = "returned"
            IsReply(e) == e[1] = "reply"
            IsSend(e) == e[1] \in {"reply", "message"}
            returned == Entries(t, IsReturned)
        IN  (lpc[t] \in {"release", "ret"} /\ returned # << >>)
            => /\ lresult[t] = "True"
               /\ Len(returned) = 1
               /\ returned[1][2] = "none" => Entries(t, IsSend) = << >>
               /\ returned[1][2] \in {"list", "str"}
                    => /\ Len(Entries(t, IsReply)) = 1
                       /\ Last(ltrace[t])[1] \in {"reply", "message"}


\* the launch of task t has left the sieve loop without a rejection
PastSieves(t) ==
    \/ lpc[t] \in {"help", "gate", "wait", "exec", "in_exec", "release"}
    \/ lpc[t] = "ret" /\ ~Has(t, "rejected")

\* C32: A dispatch never skips a sieve that stays registered for the whole
\* dispatch: a sieve that was registered before the first dispatch started
\* and is registered still (a sieve once removed never comes back) has been
\* run by every dispatch that left the sieve loop without a rejection, also
\* when another plugin was reloaded while the dispatch was inside a sieve.
C32_NoSieveSkipped ==
    \A t \in Dispatchers :
        (PastSieves(t) /\ ~IsLifecycle(lhook[t]))
        => \A sieve \in SeqToSet(sieves) \cap SeqToSet(LoadedRegistry.sieves) :
             sieve \in SeqToSet(SievesRun(t))


\* C33: When add_hook raises because it does not allow the kind of the hook,
\* plugins is as it was before the call: the rejected call made no
\* "internal/..." entry.
C33_RefusedAddHookLeavesPlugins ==
    (last.op = "add_hook" /\ last.ret = "ValueError")
    => plugins = last.snap.plugins


\* every Plugin object a load_plugin call can make
FilePlugins ==
    { Plugin(Basename(path), Splitext0(Basename(path)), id, src) :
          path \in Paths, id \in 1 .. MaxLoads, src \in Sources }

\* every hook of plugin that is not a command is indexed in the way of its
\* kind (a command is indexed under the aliases it won, which may be none)
NonCommandsIndexed(plugin) ==
    AllIndexed([Registry EXCEPT !.plugins = DictSet(plugins, plugin.file_name, plugin)],
               plugin, AliasesOf(plugin))

\* C34: The indexing of load_plugin and the whole of _unload have no
\* suspension point, so no plugin is seen partly indexed or partly removed:
\* in every state in which another coroutine can run (every state between
\* two steps of the event loop), for every Plugin object either all its
\* hooks that won their registration are indexed or none of its hooks is in
\* any index.
C34_AllOrNothing ==
    \A plugin \in FilePlugins :
        \/ NonCommandsIndexed(plugin)
        \/ \A h \in IndexedHooks : h.plugin # plugin

\* C34 witness: a load_plugin call is suspended inside an on-load hook with
\* none of its hooks indexed, while another plugin is indexed whole
C34_Witness ==
    \E t \in Loaders :
        /\ pc[t] = "launch"
        /\ lpc[t] = "in_exec"
        /\ running = {}
        /\ \A h \in IndexedHooks : h.plugin # lplugin[t].plugin
        /\ \E f \in DOMAIN plugins :
             /\ plugins[f] \in FilePlugins
             /\ NonCommandsIndexed(plugins[f])
             /\ sieves # << >>


\* C35: After the plugin that holds an alias is unloaded, the alias is
\* absent from commands, also when another loaded plugin declares it and
\* lost it to the unloaded one; an alias enters commands only by the
\* indexing of a load_plugin call, for a hook of the plugin just loaded, or
\* by add_hook: the plugin that lost gets the alias only by being loaded
\* again.
C35_LostAliasStaysLost ==
    [][/\ (last'.op = "_unload" /\ last'.ret = TRUE)
            => \A a \in DOMAIN commands :
                 commands[a].plugin = last'.plugin => a \notin DOMAIN commands'
       /\ \A a \in DOMAIN commands' \ DOMAIN commands :
            \/ /\ last'.op = "load_plugin"
               /\ last'.ret = "loaded"
               /\ commands'[a].plugin = last'.plugin
            \/ last'.op = "add_hook"
      ]_vars

\* C35 witness: the plugin that held an alias has been unloaded; a plugin
\* that declares the alias is still loaded, and the alias is in commands no
\* more
C35_Witness ==
    /\ last.op = "_unload"
    /\ last.ret = TRUE
    /\ \E a \in DOMAIN last.snap.commands :
         /\ last.snap.commands[a].plugin = last.plugin
         /\ a \notin DOMAIN commands
         /\ \E f \in DOMAIN plugins :
              /\ plugins[f] \in FilePlugins
              /\ a \in AliasesOf(plugins[f])


\* no element of the list s occurs in it twice
NoDuplicate(s) == \A i, j \in 1 .. Len(s) : s[i] = s[j] => i = j

\* C36: In every state load_plugin, _unload and add_hook can reach, no key
\* of raw_triggers and no key of event_type_hooks maps to an empty list, and
\* no hook is twice in the list of a key.
C36_NoEmptyNoDuplicate ==
    /\ \A k \in DOMAIN raw_triggers :
         raw_triggers[k] # << >> /\ NoDuplicate(raw_triggers[k])
    /\ \A k \in DOMAIN event_type_hooks :
         event_type_hooks[k] # << >> /\ NoDuplicate(event_type_hooks[k])

\* C36 witness: _unload emptied the list of one trigger, whose key is gone,
\* and took a hook from the list of another trigger, which keeps the hook of
\* another plugin
C36_Witness ==
    /\ last.op = "_unload"
    /\ last.ret = TRUE
    /\ \E k \in DOMAIN last.snap.raw_triggers : k \notin DOMAIN raw_triggers
    /\ \E k \in DOMAIN raw_triggers :
         Len(last.snap.raw_triggers[k]) > Len(raw_triggers[k])


\* the entries of the list old that the list new still holds stand at the
\* head of new in the order they had in old, and every other entry of new
\* comes after them
OrderKept(old, new) ==
    LET Stays(e) == e \in SeqToSet(new)
        kept == SelectSeq(old, Stays)
    IN  /\ Len(new) >= Len(kept)
        /\ SubSeq(new, 1, Len(kept)) = kept
        /\ \A i \in Len(kept) + 1 .. Len(new) : new[i] \notin SeqToSet(old)

\* C37: Unloading or reloading plugin P does not change the relative order
\* of the entries of the other plugins in sieves and in regex_hooks, at no
\* step of the call and over the whole call; after a reload, the sieves and
\* the regex pairs of P come after all entries registered before the reload.
C37_OrderOfOthersKept ==
    [][/\ OrderKept(sieves, sieves')
       /\ OrderKept(regex_hooks, regex_hooks')
       /\ last'.op \in {"_unload", "load_plugin"}
            => /\ OrderKept(last'.snap.sieves, sieves')
               /\ OrderKept(last'.snap.regex_hooks, regex_hooks')
       /\ (last'.op = "load_plugin" /\ last'.ret = "loaded")
            => /\ \A i, j \in 1 .. Len(sieves') :
                    (/\ sieves'[i].plugin = last'.plugin
                     /\ sieves'[j] \in SeqToSet(last'.snap.sieves)) => j < i
               /\ \A i, j \in 1 .. Len(regex_hooks') :
                    (/\ regex_hooks'[i][2].plugin = last'.plugin
                     /\ regex_hooks'[j] \in SeqToSet(last'.snap.regex_hooks)) => j < i
      ]_vars

\* C37 witness: a reload of P has returned; the sieve of P stood before the
\* sieve of another plugin when it was called, and now that sieve is first
\* and the sieve of the new P is behind it
C37_Witness ==
    /\ last.op = "load_plugin"
    /\ last.ret = "loaded"
    /\ Len(last.snap.sieves) = 2
    /\ last.snap.sieves[1].plugin.file_name = last.file_name
    /\ Len(sieves) = 2
    /\ sieves[1] = last.snap.sieves[2]
    /\ sieves[2].plugin = last.plugin

\* C37 witness for regex_hooks: _unload took the two pairs of P from the
\* head of the list and the pair of another plugin is left
C37_WitnessRegex ==
    /\ last.op = "_unload"
    /\ last.ret = TRUE
    /\ Len(last.snap.regex_hooks) = 3
    /\ last.snap.regex_hooks[1][2].plugin = last.plugin
    /\ regex_hooks = << last.snap.regex_hooks[3] >>


\* the single-concurrency key of the hook task t dispatches to
KeyOf(t) == << lhook[t].plugin.title, lhook[t].name >>

\* C38: A dispatch for the single-concurrency key K1 never waits for an
\* execution of another key K2, and a dispatch to a hook that is not
\* single_thread never waits on a queue: a waiting dispatch is single_thread
\* and its future is on the queue of its own key only; from the gate a
\* dispatch goes on to the execution step unless it is single_thread and its
\* own key is in the mapping, whatever other keys are in flight; and a
\* future gets its result only from the release of a dispatch of the same
\* key.
C38_WaitsOnlyForOwnKey ==
    [][\A t \in Dispatchers :
         /\ lpc[t] = "wait" => HookFunc(lhook[t]).single_thread
         /\ \A k \in DOMAIN hook_waiting_queues :
              t \in SeqToSet(hook_waiting_queues[k].items)
                => lpc[t] = "wait" /\ k = KeyOf(t)
         /\ (lpc[t] = "gate" /\ lpc'[t] # "gate")
              => IF /\ HookFunc(lhook[t]).single_thread
                    /\ KeyOf(t) \in DOMAIN hook_waiting_queues
                 THEN lpc'[t] = "wait"
                 ELSE lpc'[t] = "exec"
         /\ (lpc[t] = "wait" /\ lpc'[t] # "wait")
              => lpc'[t] = "exec" /\ t \in future_done
         /\ (t \in future_done' /\ t \notin future_done)
              => \E u \in Dispatchers \ {t} :
                    /\ lpc[u] = "release"
                    /\ lpc'[u] # "release"
                    /\ KeyOf(u) = KeyOf(t)
      ]_vars

\* C38 witness: one dispatch executes under key K2 and a second one waits
\* for it; a third, single_thread dispatch of another key K1 came to the
\* gate after both and is inside its callable
C38_Witness ==
    \E t1, t2, t3 \in Dispatchers :
        /\ Len(arrivals) = 3
        /\ arrivals[1][2] = t1 /\ arrivals[2][2] = t2 /\ arrivals[3][2] = t3
        /\ lpc[t1] = "in_exec"
        /\ lpc[t2] = "wait"
        /\ KeyOf(t1) = KeyOf(t2)
        /\ lpc[t3] = "in_exec"
        /\ HookFunc(lhook[t3]).single_thread
        /\ KeyOf(t3) # KeyOf(t1)
        /\ Has(t3, "acquire")

\* C38 second witness: a dispatch to a hook that is not single_thread is
\* inside its callable while a single_thread dispatch executes and another
\* one waits for it
C38_WitnessNotSingle ==
    \E t1, t2, t3 \in Dispatchers :
        /\ lpc[t1] = "in_exec"
        /\ lpc[t2] = "wait"
        /\ KeyOf(t1) = KeyOf(t2)
        /\ lpc[t3] = "in_exec"
        /\ ~HookFunc(lhook[t3]).single_thread


\* the call of josephus has ended
JosephusEnded == jose.pc \in {"returned", "raised"}

\* C39: josephus terminates for every text of three integers (size, every_x,
\* starting position) it accepts: every call comes to its return (or to the
\* exception that rejects the text).
C39_JosephusTerminates == <>JosephusEnded

\* C39, second half: when josephus reports a position, exactly one position
\* is alive and alive[current] is that one
C39_SurvivorReported ==
    (jose.pc = "returned" /\ jose.ret = "position")
      => /\ SumAlive(jose.alive) = 1
         /\ jose.alive[PyIndex(jose.alive, jose.current)]

\* C39, second half: the position reported is one of the positions
\* 0 .. size - 1
C39_ReportedIsPosition ==
    (jose.pc = "returned" /\ jose.ret = "position")
      => jose.current \in 0 .. jose.size - 1

\* C39 restricted to texts with every_x >= 1: the call terminates
C39_TerminatesForPositiveStep ==
    (Len(jose.split) = 3 /\ jose.split[2] >= 1) => <>JosephusEnded

\* C39: a call with every_x <= 0 and three or more positions has killed one
\* position and goes round the circle with till_kill below 0
C39_Spinning ==
    /\ jose.pc = "loop"
    /\ jose.every_x <= 0
    /\ jose.till_kill = -MaxBelow
    /\ SumAlive(jose.alive) >= 2
    /\ SumAlive(jose.alive) < jose.size

=============================================================================
